---- MODULE Spec2Model ----
(***************************************************************************)
(* Model of the MCPP client (ajay-rg-8583/mcpp-client): the placeholder /  *)
(* consent / routing engine of ChatViewProvider (client/src/chatView.ts),  *)
(* the McpClient protocol client and the webview script it talks to.       *)
(*                                                                         *)
(* The module holds several specifications over one set of variables, one  *)
(* per part of the engine:                                                 *)
(*   SpecConsent  resolveWithAccessControl / handleConsentFlow and the     *)
(*                webview's consent dialogs (LiveConsent adds the timers'  *)
(*                fairness)                                                *)
(*   SpecResolve  handlePlaceholderMessageAction: extraction, grouping by  *)
(*                server, one batch per server, merge and substitution     *)
(*   Spec         the conversation: handleQuery, clearChat,                *)
(*                runConversation, handleCallTool with its confirmation    *)
(*                prompts, and the MCPP action handlers                    *)
(*   SpecSession  the session stores: getClient and the client cache,      *)
(*                loadTools, refreshConfiguration and the tool-call ledger *)
(*   SpecForm     a placeholder with and without its server key:           *)
(*                handleCallTool adds it, McpClient.callTool and           *)
(*                cleanPlaceholder strip it, getReferencePlaceholder and   *)
(*                handleReferenceRequestAction hand it to the model        *)
(*   SpecDisplay  handleDisplayDataAction: the mcpp/get_data and resolve   *)
(*                requests of a display_data action and their servers      *)
(* Each specification leaves the variables of the other parts unchanged.   *)
(***************************************************************************)
EXTENDS Integers, Sequences, FiniteSets, TLC

(***************************************************************************)
(* Bounds of the model.                                                    *)
(***************************************************************************)
\* number of resolveWithAccessControl invocations that may be in progress
MaxCalls == 2

\* number of runConversation chains that may be in progress at once
MaxChains == 2

\* number of messages pushed to the chat history
MaxHistory == 5

\* number of refreshConfiguration calls
MaxRefreshes == 1

\* number of display_data actions handled
MaxDisplays == 2

(***************************************************************************)
(* Program constants.                                                      *)
(***************************************************************************)
INVALID_PARAMS == -32602
DATA_NOT_FOUND == -32004
CACHE_MISS == -32001
REFERENCE_NOT_FOUND == -32002
RESOLUTION_FAILED == -32003
INSUFFICIENT_PERMISSIONS == -32005
INVALID_DATA_USAGE == -32006
CONSENT_REQUIRED == -32007
CONSENT_DENIED == -32008
CONSENT_TIMEOUT == -32009
INVALID_TARGET == -32010
INTERNAL_ERROR == -32603
METHOD_NOT_FOUND == -32601
\* timeout_seconds used when the server's consent request gives none (or 0)
DefaultTimeoutSeconds == 30

McppErrorCode ==
  { INVALID_PARAMS, DATA_NOT_FOUND, CACHE_MISS, REFERENCE_NOT_FOUND,
    RESOLUTION_FAILED, INSUFFICIENT_PERMISSIONS, INVALID_DATA_USAGE,
    CONSENT_REQUIRED, CONSENT_DENIED, CONSENT_TIMEOUT, INVALID_TARGET,
    INTERNAL_ERROR, METHOD_NOT_FOUND }

\* the servers of the workspace configuration, in the order of the settings
\* object (Object.keys order)
ConfiguredServers == <<"serverB", "serverA">>

None == 0

VARIABLES
  \* ---- consent coordinator (chatView.ts) ----
  displayInput,     \* data and usage context of the display_data actions
  rwacPc,           \* position of each resolveWithAccessControl invocation
  rwacArgs,         \* its arguments: data and usage context
  consentRequest,   \* the ConsentRequest built from the server's error
  pendingConsents,  \* keys of _pendingConsents (request ids)
  consentResolver,  \* request id whose closure _consentResolver holds, or None
  hostTimer,        \* the setTimeout of handleConsentFlow, per request
  approvedArg,      \* argument pending.resolve was called with
  outcome,          \* how the invocation's promise settled
  sent,             \* requests the invocation sent to a server, in order
  \* ---- webview (main.js) ----
  dialog,           \* consent dialog overlay of each request
  dialogTimer,      \* the setTimeout of showConsentDialog
  inbox,            \* consentResponse messages posted to the host, FIFO
  \* ---- history variables ----
  settledBy,        \* dialog whose message settled the request (None: none)
  settledCause,     \* what produced that message: "click" or "timeout"
  decisionOnPending,\* the user's click in the request's dialog, handled by the
                    \* host while the request was pending: "allow" or "deny"
  timerAtDecision,  \* hostTimer of the request when pending.resolve ran
  consentRecorded,  \* provideConsent returned a result for the request
  \* ---- resolution engine (chatView.ts) ----
  placeholderMessage,    \* data of the placeholder_message action
  toolCallIdToServerKey, \* _toolCallIdToServerKey: the tool-call ledger
  toolCallIdToInfo,      \* _toolCallIdToInfo: tool name and sensitivity
  mcpClients,            \* keys of _mcpClients in insertion order
  serverData,            \* what the servers hold for the placeholders
  pmPc,                  \* position of handlePlaceholderMessageAction
  placeholders,          \* extractPlaceholdersFromText(message)
  placeholdersByServer,  \* the groups, in insertion order of their keys
  resolveRequests,       \* the request sent for each group
  resolutionResults,     \* the settled result of each group's promise
  resolvedValues,        \* the merged values of step 3
  resolvedMessage,       \* the text after step 4
  response,              \* the 'response' message posted to the webview
  \* ---- history variables ----
  replies,               \* what each group's server answered
  completionOrder,       \* the groups in the order their requests settled
  replaced,              \* the replace calls of step 4
  \* ---- conversation (chatView.ts) ----
  chatHistory,           \* _chatHistory, each message with its origins
  chainPc,               \* position of each runConversation chain
  toolCall,              \* the tool call handleCallTool handles in the chain
  argValue,              \* its argument as it stands, with its origins
  callSent,              \* requests handleCallTool sent for it, in order
  lastPost,              \* the last message posted to the webview
  cleared,               \* the number of messages 'clearChat' has dropped
  confirmationResolver,  \* chain whose promise _confirmationResolver settles,
                         \* or None
  prompts,               \* chains whose confirmation prompt the webview shows
  \* ---- session stores (chatView.ts) ----
  servers,               \* keys of the 'servers' setting, in Object.keys order
  toolNameToServerKey,   \* _toolNameToServerKey
  toolSensitivity,       \* _toolSensitivity
  clientOf,              \* _mcpClients: the McpClient instance of each key
  instances,             \* the McpClient instances constructed so far: the
                         \* n-th one was constructed for the key instances[n]
  loadToolsPc,           \* position of each loadTools run
  allTools,              \* allTools of each loadTools run in progress (names)
  tools,                 \* _tools: the tools offered to the LLM (names)
  \* ---- history variables ----
  retiredUpTo,           \* number of instances constructed before the last
                         \* refreshConfiguration
  returned,              \* instances getClient returned for each key since
                         \* the last refreshConfiguration
  lastGetClient,         \* argument and result of the last getClient call
  \* ---- a placeholder on its way to the server and back (chatView.ts, mcpClient.ts) ----
  placeholderForm,       \* the placeholder as written, the server key, the
                         \* placeholder as it stands and the step that made it
  \* ---- a display_data action and its requests (chatView.ts) ----
  displayAction          \* position of handleDisplayDataAction, the tool-call
                         \* id it works for, its usage context, the requests
                         \* it sent and what it posted

consentVars ==
  << displayInput, rwacPc, rwacArgs, consentRequest, pendingConsents, consentResolver,
     hostTimer, approvedArg, outcome, sent, dialog, dialogTimer, inbox,
     settledBy, settledCause, decisionOnPending, timerAtDecision,
     consentRecorded >>

history ==
  << displayInput, settledBy, settledCause, decisionOnPending, timerAtDecision,
     consentRecorded >>

storeVars == << toolCallIdToServerKey, toolCallIdToInfo, mcpClients >>

resolveVars ==
  << placeholderMessage, serverData, pmPc, placeholders, placeholdersByServer,
     resolveRequests, resolutionResults, resolvedValues, resolvedMessage,
     response, replies, completionOrder, replaced >>

chatVars ==
  << chatHistory, chainPc, toolCall, argValue, callSent, lastPost, cleared,
     confirmationResolver, prompts >>

\* the confirmation state of host and webview
confirmVars == << confirmationResolver, prompts >>

sessionVars ==
  << servers, toolNameToServerKey, toolSensitivity, clientOf, instances,
     loadToolsPc, allTools, tools, retiredUpTo, returned, lastGetClient >>

vars == << consentVars, storeVars, resolveVars, chatVars, sessionVars, placeholderForm, displayAction >>

\* the variables each part leaves alone
outsideConsent == << storeVars, resolveVars, chatVars, sessionVars, placeholderForm, displayAction >>

outsideResolve == << consentVars, chatVars, sessionVars, placeholderForm, displayAction >>

outsideChat == << consentVars, resolveVars, sessionVars, placeholderForm, displayAction >>

outsideSession == << consentVars, resolveVars, chatVars, placeholderForm, displayAction >>

outsideForm == << consentVars, storeVars, resolveVars, chatVars, sessionVars, displayAction >>

outsideDisplay == << consentVars, resolveVars, chatVars, sessionVars, placeholderForm >>

Calls == 1..MaxCalls

\* the loadTools runs: the first is started by resolveWebviewView, the others
\* by refreshConfiguration
LoadToolsRuns == 1..(MaxRefreshes + 1)

NoGetClient == [ serverKey |-> "none", chosenServerKey |-> "none", client |-> 0 ]

\* no placeholder is on its way
FormIdle ==
  placeholderForm = [ written |-> << >>, serverKey |-> "none", value |-> << >>,
                      by |-> "none" ]

\* no display_data action has been handled
DisplayIdle ==
  displayAction = [ pc |-> "idle", tool_call_id |-> << >>, with_context |-> FALSE,
                    sent |-> << >>, posted |-> "none", handled |-> 0 ]

(***************************************************************************)
(* mcpClient.ts: usage contexts and error classification                   *)
(***************************************************************************)
NoPurpose == "undefined"

createUsageContext(dataUsage, targetType, destination, purpose) ==
  [ data_usage |-> dataUsage, type |-> targetType,
    destination |-> destination, purpose |-> purpose ]

\* the (data, usage context) pairs resolveWithAccessControl is called with
ResolveInputs ==
  { << "table_call_1", createUsageContext("display", "client", "user_interface", NoPurpose) >>,
    << "table_call_2", createUsageContext("transfer", "llm", "gpt-4.1", "summarise") >> }

\* the (options.timeout_seconds, options.allow_remember) pairs of the consent
\* requests a server sends (timeout 0: absent or zero)
ConsentOptions == { << -1, FALSE >>, << 0, FALSE >>, << 5, TRUE >> }

ErrorValue(isObject, hasCode, code, hasPayload, timeout, allowRemember) ==
  [ isObject |-> isObject, hasNumericCode |-> hasCode, code |-> code,
    hasConsentRequest |-> hasPayload, timeout_seconds |-> timeout,
    allow_remember |-> allowRemember ]

\* error values a resolve request may fail with
ResolveErrors ==
  { ErrorValue(FALSE, FALSE, 0, FALSE, 0, FALSE),
    ErrorValue(TRUE, FALSE, 0, FALSE, 0, FALSE),
    ErrorValue(TRUE, TRUE, -32000, FALSE, 0, FALSE),
    ErrorValue(TRUE, TRUE, INSUFFICIENT_PERMISSIONS, FALSE, 0, FALSE),
    ErrorValue(TRUE, TRUE, CONSENT_REQUIRED, FALSE, 0, FALSE) }
  \cup { ErrorValue(TRUE, TRUE, CONSENT_REQUIRED, TRUE, o[1], o[2]) :
           o \in ConsentOptions }

isAccessControlError(error) ==
  /\ error.isObject
  /\ error.hasNumericCode
  /\ error.code \in McppErrorCode

\* mutant: every access control error counts as consent required
isConsentRequiredError_AnyCode(error) == isAccessControlError(error)

isConsentRequiredError(error) ==
  isAccessControlError(error) /\ error.code = CONSENT_REQUIRED

(***************************************************************************)
(* Requests on the wire                                                    *)
(***************************************************************************)
NoCtx == createUsageContext("none", "none", "none", NoPurpose)

ResolveRequest(server, data, ctx) ==
  [ method |-> "mcpp/resolve_placeholders", server |-> server, data |-> data,
    usage_context |-> ctx, request_id |-> None, approved |-> FALSE,
    remember_choice |-> FALSE ]

ProvideConsentRequest(server, requestId, approved, rememberChoice) ==
  [ method |-> "mcpp/provide_consent", server |-> server, data |-> "none",
    usage_context |-> NoCtx, request_id |-> requestId, approved |-> approved,
    remember_choice |-> rememberChoice ]

\* getClient(): the key chosen when no serverKey is given
DefaultServerKey == ConfiguredServers[1]

\* the server keys in lexicographic order
LexicographicOrder == << "serverA", "serverB", "serverX" >>

\* the lexicographically first key of a configuration
LexicographicallyFirst(config) ==
  LexicographicOrder[
    CHOOSE n \in DOMAIN LexicographicOrder :
      /\ \E k \in DOMAIN config : config[k] = LexicographicOrder[n]
      /\ \A m \in 1..(n - 1) :
           \A k \in DOMAIN config : config[k] # LexicographicOrder[m] ]

\* mutant: the fallback is the lexicographically first configured key
chosenServerKey_Lexicographic(config, serverKey) ==
  IF \E k \in DOMAIN config : config[k] = serverKey
  THEN serverKey ELSE LexicographicallyFirst(config)

\* serverKey && servers[serverKey] ? serverKey : Object.keys(servers)[0]
chosenServerKey(config, serverKey) ==
  IF \E k \in DOMAIN config : config[k] = serverKey
  THEN serverKey ELSE config[1]

\* the key of the client getClient returns: the given key if it is configured,
\* otherwise the first configured one
getClient(serverKey) == chosenServerKey(ConfiguredServers, serverKey)

(***************************************************************************)
(* The session stores of ChatViewProvider                                  *)
(***************************************************************************)
NoServer == "undefined"

\* _toolNameToServerKey and _toolSensitivity after loadTools; toolX is a name
\* no server listed
Tools == { "toolA", "toolB", "toolX" }

ToolServerKey(toolName) ==
  CASE toolName = "toolA" -> "serverA"
    [] toolName = "toolB" -> "serverB"
    [] OTHER -> NoServer

ToolSensitive(toolName) == toolName = "toolA"

\* _toolCallIdToInfo entry
ToolInfo(toolName, isSensitive) == [ toolName |-> toolName, isSensitive |-> isSensitive ]

\* the tools a server names in its tools/list result
ToolsOf(serverKey) == { toolName \in Tools : ToolServerKey(toolName) = serverKey }

\* the keys of a configuration or of the client cache
KeysOf(keys) == { keys[n] : n \in DOMAIN keys }

\* loadTools has run over the configuration and listed every tool, nothing
\* was refreshed, and the clients of cache were created in its order
SessionWith(cache) ==
  /\ servers = ConfiguredServers
  /\ toolNameToServerKey =
       [ toolName \in UNION { ToolsOf(k) : k \in KeysOf(ConfiguredServers) } |->
           ToolServerKey(toolName) ]
  /\ toolSensitivity =
       [ toolName \in UNION { ToolsOf(k) : k \in KeysOf(ConfiguredServers) } |->
           ToolSensitive(toolName) ]
  /\ instances = cache
  /\ clientOf = [ k \in KeysOf(cache) |-> CHOOSE n \in DOMAIN cache : cache[n] = k ]
  /\ loadToolsPc = [ r \in LoadToolsRuns |-> IF r = 1 THEN Len(ConfiguredServers) + 1 ELSE 0 ]
  /\ allTools = [ r \in LoadToolsRuns |-> {} ]
  /\ tools = UNION { ToolsOf(k) : k \in KeysOf(ConfiguredServers) }
  /\ retiredUpTo = 0
  /\ returned = [ k \in KeysOf(ConfiguredServers) |-> {} ]
  /\ lastGetClient = NoGetClient

SessionLoaded == SessionWith(ConfiguredServers)

(***************************************************************************)
(* chatView.ts: resolveWithAccessControl and handleConsentFlow             *)
(***************************************************************************)
ConsentIdle ==
  /\ rwacPc = [i \in Calls |-> "idle"]
  /\ rwacArgs = [i \in Calls |-> [data |-> "none", ctx |-> NoCtx]]
  /\ consentRequest = [i \in Calls |-> [present |-> FALSE, timeout_seconds |-> 0,
                                         allow_remember |-> FALSE]]
  /\ pendingConsents = {}
  /\ consentResolver = None
  /\ hostTimer = [i \in Calls |-> "unset"]
  /\ approvedArg = [i \in Calls |-> "none"]
  /\ outcome = [i \in Calls |-> "none"]
  /\ sent = [i \in Calls |-> << >>]
  /\ dialog = [i \in Calls |-> "none"]
  /\ dialogTimer = [i \in Calls |-> "unset"]
  /\ inbox = << >>
  /\ settledBy = [i \in Calls |-> None]
  /\ settledCause = [i \in Calls |-> "none"]
  /\ decisionOnPending = [i \in Calls |-> "none"]
  /\ timerAtDecision = [i \in Calls |-> "unset"]
  /\ consentRecorded = [i \in Calls |-> FALSE]

\* no placeholder_message action is in progress
ResolveIdle ==
  /\ pmPc = "idle"
  /\ placeholders = << >>
  /\ placeholdersByServer = << >>
  /\ resolveRequests = << >>
  /\ resolutionResults = << >>
  /\ resolvedValues = << >>
  /\ resolvedMessage = << >>
  /\ response = [ posted |-> FALSE, value |-> << >> ]
  /\ replies = << >>
  /\ completionOrder = << >>
  /\ replaced = << >>

\* no conversation is in progress
ChatIdle ==
  /\ chatHistory = << >>
  /\ chainPc = [ c \in 1..MaxChains |-> "idle" ]
  /\ toolCall = [ c \in 1..MaxChains |-> [ id |-> << >>, toolName |-> "none", value |-> << >> ] ]
  /\ argValue = [ c \in 1..MaxChains |-> [ value |-> << >>, origins |-> {} ] ]
  /\ callSent = [ c \in 1..MaxChains |-> << >> ]
  /\ lastPost = [ type |-> "none", origins |-> {} ]
  /\ cleared = 0
  /\ confirmationResolver = None
  /\ prompts = {}

InitConsent ==
  /\ FormIdle
  /\ DisplayIdle
  /\ displayInput \in ResolveInputs
  /\ ConsentIdle
  /\ placeholderMessage = [ message |-> << >>, fallback_message |-> << >> ]
  /\ toolCallIdToServerKey = << >>
  /\ toolCallIdToInfo = << >>
  /\ mcpClients = ConfiguredServers
  /\ serverData = "plain"
  /\ ResolveIdle
  /\ ChatIdle
  /\ SessionLoaded

\* the invocation's promise settles
Settle(i, pc, how) ==
  /\ rwacPc' = [rwacPc EXCEPT ![i] = pc]
  /\ outcome' = [outcome EXCEPT ![i] = how]

\* resolveWithAccessControl up to the await of the first resolve request
resolveWithAccessControl(i, data, ctx) ==
  /\ rwacPc[i] = "idle"
  /\ \A j \in Calls : j < i => rwacPc[j] # "idle"
  /\ rwacPc' = [rwacPc EXCEPT ![i] = "resolving"]
  /\ rwacArgs' = [rwacArgs EXCEPT ![i] = [data |-> data, ctx |-> ctx]]
  /\ sent' = [sent EXCEPT ![i] = Append(@, ResolveRequest(DefaultServerKey, data, ctx))]
  /\ UNCHANGED << consentRequest, pendingConsents, consentResolver, hostTimer,
                  approvedArg, outcome, dialog, dialogTimer, inbox, history >>
  /\ UNCHANGED outsideConsent

\* the first resolve request succeeds: result.resolved_data is returned
resolveReturns(i) ==
  /\ rwacPc[i] = "resolving"
  /\ Settle(i, "returned", "data")
  /\ UNCHANGED << rwacArgs, consentRequest, pendingConsents, consentResolver,
                  hostTimer, approvedArg, sent, dialog, dialogTimer, inbox,
                  history >>
  /\ UNCHANGED outsideConsent

\* timeout_seconds: serverConsentRequest.options?.timeout_seconds || 30
ConsentTimeoutSeconds(serverValue) ==
  IF serverValue = 0 THEN DefaultTimeoutSeconds ELSE serverValue

\* mutant: the timer is started only for timeouts above the default
StartsTimer_AboveDefault(timeoutSeconds) == timeoutSeconds > DefaultTimeoutSeconds

\* whether handleConsentFlow starts its timer
StartsTimer(timeoutSeconds) == timeoutSeconds > 0

\* whether showConsentDialog starts its timer: timeout && timeout > 0
DialogStartsTimer(timeout) == timeout # 0 /\ timeout > 0

\* handleConsentFlow: store the pending consent, post the consentRequest
\* message (the webview opens the dialog), replace _consentResolver, start
\* the timer
handleConsentFlow(i, request) ==
  /\ consentRequest' = [consentRequest EXCEPT ![i] = request]
  /\ pendingConsents' = pendingConsents \cup {i}
  /\ dialog' = [dialog EXCEPT ![i] = "open"]
  /\ dialogTimer' = [dialogTimer EXCEPT ![i] =
                       IF DialogStartsTimer(request.timeout_seconds)
                       THEN "armed" ELSE "unset"]
  /\ consentResolver' = i
  /\ hostTimer' = [hostTimer EXCEPT ![i] =
                     IF StartsTimer(request.timeout_seconds)
                     THEN "armed" ELSE "unset"]
  /\ rwacPc' = [rwacPc EXCEPT ![i] = "pending"]
  /\ UNCHANGED outcome

\* the first resolve request fails with error: the catch block of
\* resolveWithAccessControl
resolveThrows(i, error) ==
  /\ rwacPc[i] = "resolving"
  /\ IF isConsentRequiredError(error)
     THEN IF error.hasConsentRequest
          THEN handleConsentFlow(i,
                 [present |-> TRUE,
                  timeout_seconds |-> ConsentTimeoutSeconds(error.timeout_seconds),
                  allow_remember |-> error.allow_remember])
          ELSE \* error.data.consent_request is undefined: TypeError
               /\ Settle(i, "thrown", "error")
               /\ UNCHANGED << consentRequest, pendingConsents, consentResolver,
                               hostTimer, dialog, dialogTimer >>
     ELSE /\ Settle(i, "thrown",
                    IF isAccessControlError(error) THEN "accessDenied" ELSE "error")
          /\ UNCHANGED << consentRequest, pendingConsents, consentResolver,
                          hostTimer, dialog, dialogTimer >>
  /\ UNCHANGED << rwacArgs, approvedArg, sent, inbox, history >>
  /\ UNCHANGED outsideConsent

\* mutant: the timer callback rejects without looking the request up
consentTimeout_Unchecked(i) ==
  /\ hostTimer[i] = "armed"
  /\ hostTimer' = [hostTimer EXCEPT ![i] = "fired"]
  /\ pendingConsents' = pendingConsents \ {i}
  /\ Settle(i, "thrown", "timeout")
  /\ UNCHANGED << rwacArgs, consentRequest, consentResolver, approvedArg, sent,
                  dialog, dialogTimer, inbox, history >>
  /\ UNCHANGED outsideConsent

\* the setTimeout callback of handleConsentFlow
consentTimeout(i) ==
  /\ hostTimer[i] = "armed"
  /\ hostTimer' = [hostTimer EXCEPT ![i] = "fired"]
  /\ IF i \in pendingConsents
     THEN /\ pendingConsents' = pendingConsents \ {i}
          /\ Settle(i, "thrown", "timeout")
     ELSE UNCHANGED << pendingConsents, rwacPc, outcome >>
  /\ UNCHANGED << rwacArgs, consentRequest, consentResolver, approvedArg, sent,
                  dialog, dialogTimer, inbox, history >>
  /\ UNCHANGED outsideConsent

\* rememberChoice of provideConsent in pending.resolve: always false
ProvidedRememberChoice(rememberChoice) == FALSE

\* onDidReceiveMessage 'consentResponse': call _consentResolver, which looks
\* its own request up and starts pending.resolve(approved) up to the await of
\* provideConsent; then _consentResolver = undefined
consentResponse ==
  /\ inbox # << >>
  /\ inbox' = Tail(inbox)
  /\ LET msg == Head(inbox)
         r == consentResolver
     IN IF r # None /\ r \in pendingConsents
        THEN /\ pendingConsents' = pendingConsents \ {r}
             /\ approvedArg' = [approvedArg EXCEPT ![r] =
                                  IF msg.approved THEN "true" ELSE "false"]
             /\ sent' = [sent EXCEPT ![r] = Append(@,
                           ProvideConsentRequest(DefaultServerKey, r, msg.approved,
                             ProvidedRememberChoice(msg.rememberChoice)))]
             /\ rwacPc' = [rwacPc EXCEPT ![r] = "providing"]
             /\ settledBy' = [settledBy EXCEPT ![r] = msg.dialog]
             /\ settledCause' = [settledCause EXCEPT ![r] = msg.cause]
             /\ timerAtDecision' = [timerAtDecision EXCEPT ![r] = hostTimer[r]]
        ELSE UNCHANGED << pendingConsents, approvedArg, sent, rwacPc, settledBy,
                          settledCause, timerAtDecision >>
  /\ decisionOnPending' =
       LET msg == Head(inbox)
       IN IF msg.cause = "click" /\ msg.dialog \in pendingConsents
          THEN [decisionOnPending EXCEPT ![msg.dialog] =
                  IF msg.approved THEN "allow" ELSE "deny"]
          ELSE decisionOnPending
  /\ consentResolver' = None
  /\ UNCHANGED << rwacArgs, consentRequest, hostTimer, outcome, dialog, dialogTimer,
                  consentRecorded, displayInput >>
  /\ UNCHANGED outsideConsent

\* the usage context of the retry in pending.resolve
RetryUsageContext(original) ==
  createUsageContext("display", "client", "user_interface", NoPurpose)

\* whether pending.resolve retries after provideConsent returned: if (approved)
\* mutant: the retry is issued whatever the decision
RetriesAfterConsent_Always(approved) == TRUE

RetriesAfterConsent(approved) == approved = "true"

\* provideConsent returned: retry the resolve request or reject
provideConsentReturns(i) ==
  /\ rwacPc[i] = "providing"
  /\ consentRecorded' = [consentRecorded EXCEPT ![i] = TRUE]
  /\ IF RetriesAfterConsent(approvedArg[i])
     THEN /\ sent' = [sent EXCEPT ![i] = Append(@,
                        ResolveRequest(DefaultServerKey, rwacArgs[i].data,
                                       RetryUsageContext(rwacArgs[i].ctx)))]
          /\ rwacPc' = [rwacPc EXCEPT ![i] = "retrying"]
          /\ UNCHANGED outcome
     ELSE /\ Settle(i, "thrown", "denied")
          /\ UNCHANGED sent
  /\ UNCHANGED << rwacArgs, consentRequest, pendingConsents, consentResolver,
                  hostTimer, approvedArg, dialog, dialogTimer, inbox, settledBy,
                  settledCause, decisionOnPending, timerAtDecision, displayInput >>
  /\ UNCHANGED outsideConsent

\* mutant: a failing provideConsent is swallowed and the retry still issued
provideConsentThrows_StillRetries(i) ==
  /\ rwacPc[i] = "providing"
  /\ approvedArg[i] = "true"
  /\ sent' = [sent EXCEPT ![i] = Append(@,
                ResolveRequest(DefaultServerKey, rwacArgs[i].data,
                               RetryUsageContext(rwacArgs[i].ctx)))]
  /\ rwacPc' = [rwacPc EXCEPT ![i] = "retrying"]
  /\ UNCHANGED << rwacArgs, consentRequest, pendingConsents, consentResolver,
                  hostTimer, approvedArg, outcome, dialog, dialogTimer, inbox,
                  history >>
  /\ UNCHANGED outsideConsent

\* provideConsent threw: catch (error) { reject(error) }
provideConsentThrows(i) ==
  /\ rwacPc[i] = "providing"
  /\ Settle(i, "thrown", "error")
  /\ UNCHANGED << rwacArgs, consentRequest, pendingConsents, consentResolver,
                  hostTimer, approvedArg, sent, dialog, dialogTimer, inbox,
                  history >>
  /\ UNCHANGED outsideConsent

\* the retried resolve request returned: resolve(result.resolved_data)
retryReturns(i) ==
  /\ rwacPc[i] = "retrying"
  /\ Settle(i, "returned", "data")
  /\ UNCHANGED << rwacArgs, consentRequest, pendingConsents, consentResolver,
                  hostTimer, approvedArg, sent, dialog, dialogTimer, inbox,
                  history >>
  /\ UNCHANGED outsideConsent

\* the retried resolve request threw (whatever the error): reject(error)
retryThrows(i) ==
  /\ rwacPc[i] = "retrying"
  /\ Settle(i, "thrown", "error")
  /\ UNCHANGED << rwacArgs, consentRequest, pendingConsents, consentResolver,
                  hostTimer, approvedArg, sent, dialog, dialogTimer, inbox,
                  history >>
  /\ UNCHANGED outsideConsent

(***************************************************************************)
(* main.js: showConsentDialog                                              *)
(***************************************************************************)
\* sendResponse(approved): post consentResponse and close the dialog
sendResponse(d, approved, checked, cause) ==
  /\ inbox' = Append(inbox,
       [ approved |-> approved,
         rememberChoice |-> IF consentRequest[d].allow_remember THEN checked ELSE FALSE,
         dialog |-> d, cause |-> cause ])
  /\ dialog' = [dialog EXCEPT ![d] = "closed"]

\* the user clicks Allow or Deny in the dialog of request d
userClicks(d, approved, checked) ==
  /\ dialog[d] = "open"
  /\ checked => consentRequest[d].allow_remember
  /\ sendResponse(d, approved, checked, "click")
  /\ UNCHANGED << rwacPc, rwacArgs, consentRequest, pendingConsents,
                  consentResolver, hostTimer, approvedArg, outcome, sent,
                  dialogTimer, history >>
  /\ UNCHANGED outsideConsent

\* the dialog's own timeout: deny if the dialog is still shown (the callback
\* does nothing otherwise).  It was started after the host's timer, with the
\* same delay
dialogTimeout(d) ==
  /\ dialogTimer[d] = "armed"
  /\ hostTimer[d] = "fired"
  /\ dialog[d] = "open"
  /\ dialogTimer' = [dialogTimer EXCEPT ![d] = "fired"]
  /\ sendResponse(d, FALSE, FALSE, "timeout")
  /\ UNCHANGED << rwacPc, rwacArgs, consentRequest, pendingConsents,
                  consentResolver, hostTimer, approvedArg, outcome, sent,
                  history >>
  /\ UNCHANGED outsideConsent

NextConsent ==
  \/ \E i \in Calls :
       resolveWithAccessControl(i, displayInput[1], displayInput[2])
  \/ \E i \in Calls : resolveReturns(i)
  \/ \E i \in Calls, e \in ResolveErrors : resolveThrows(i, e)
  \/ \E i \in Calls : consentTimeout(i)
  \/ consentResponse
  \/ \E i \in Calls : provideConsentReturns(i)
  \/ \E i \in Calls : provideConsentThrows(i)
  \/ \E i \in Calls : retryReturns(i)
  \/ \E i \in Calls : retryThrows(i)
  \/ \E d \in Calls, a \in BOOLEAN, c \in BOOLEAN : userClicks(d, a, c)
  \/ \E d \in Calls : dialogTimeout(d)

SpecConsent == InitConsent /\ [][NextConsent]_vars

\* a timer set with setTimeout does fire
LiveConsent == SpecConsent /\ \A i \in Calls : WF_vars(consentTimeout(i))

(***************************************************************************)
(* Claims about the consent flow                                           *)
(***************************************************************************)
IsRetry(i, n) ==
  /\ n > 1
  /\ n <= Len(sent[i])
  /\ sent[i][n].method = "mcpp/resolve_placeholders"

Retries(i) == Cardinality({ n \in 1..Len(sent[i]) : IsRetry(i, n) })

\* C2: the consent flow returns resolved data only if a decision with
\* approved=true was handled for that request (its pendingConsent.resolve was
\* invoked with approved=true) before the request's timeout fired and
\* mcpp/provide_consent succeeded; after a denial or a timeout no retry resolve
\* request is ever issued for the request and the flow ends in failure.
C2_ConsentFailClosed ==
  \A i \in Calls :
    consentRequest[i].present =>
      /\ outcome[i] = "data" =>
            /\ approvedArg[i] = "true"
            /\ timerAtDecision[i] # "fired"
            /\ consentRecorded[i]
      /\ (approvedArg[i] = "false" \/ outcome[i] = "timeout") =>
            /\ Retries(i) = 0
            /\ rwacPc[i] \in {"providing", "thrown"}
            /\ outcome[i] \in {"none", "denied", "timeout", "error"}

C2_Witness ==
  \E i \in Calls :
    /\ consentRequest[i].present
    /\ outcome[i] = "data"
    /\ \E j \in Calls : j # i /\ outcome[j] = "denied" /\ consentRecorded[j]

\* C4: when an approval is handled for a pending consent before its timeout,
\* mcpp/provide_consent with that request_id and approved=true is sent first,
\* the resolve request is re-issued only after provide_consent has succeeded,
\* and exactly one retry is issued per approved consent request: a failing
\* provide_consent or a failing retry leads to failure, not to another retry.
C4_ProvideConsentThenOneRetry ==
  \A i \in Calls :
    approvedArg[i] = "true" =>
      /\ Len(sent[i]) >= 2
      /\ sent[i][2].method = "mcpp/provide_consent"
      /\ sent[i][2].request_id = i
      /\ sent[i][2].approved
      /\ Len(sent[i]) <= 3
      /\ Retries(i) = (IF consentRecorded[i] THEN 1 ELSE 0)
      /\ rwacPc[i] = "providing" => Retries(i) = 0
      /\ rwacPc[i] = "thrown" => outcome[i] = "error"

C4_Witness ==
  \E i, j \in Calls :
    /\ approvedArg[i] = "true" /\ Retries(i) = 1 /\ outcome[i] = "error"
    /\ approvedArg[j] = "true" /\ ~consentRecorded[j] /\ outcome[j] = "error"

\* C5: every consent flow whose request has timeout_seconds > 0 and for which
\* no user decision arrives eventually ends: its pending entry is removed and
\* the awaiting resolution is rejected.
C5_PendingConsentEnds ==
  \A i \in Calls :
    (i \in pendingConsents /\ consentRequest[i].timeout_seconds > 0)
      ~> (i \notin pendingConsents /\ (approvedArg[i] # "none" \/ outcome[i] = "timeout"))

\* a request with a timeout was ended by its timer, no decision handled
C5_Witness ==
  \E i \in Calls :
    /\ consentRequest[i].present
    /\ consentRequest[i].timeout_seconds > 0
    /\ approvedArg[i] = "none"
    /\ outcome[i] = "timeout"
    /\ rwacPc[i] = "thrown"
    /\ i \notin pendingConsents

\* C6: when two consent requests with different request ids are pending at
\* the same time, a user decision made on one request's prompt settles that
\* request with that decision and leaves the other request pending.
C6_DecisionSettlesItsOwnRequest ==
  \A i \in Calls :
    /\ settledCause[i] = "click" => settledBy[i] = i
    /\ decisionOnPending[i] # "none" =>
          /\ settledBy[i] = i
          /\ approvedArg[i] = (IF decisionOnPending[i] = "allow" THEN "true" ELSE "false")

\* C12: the resolve request re-issued after an approved consent carries the
\* same data and the same usage context (data usage, target type,
\* destination, purpose) and is sent to the same server as the request that
\* raised consent-required.
C12_RetryRepeatsOriginalRequest ==
  \A i \in Calls :
    \A n \in 1..Len(sent[i]) :
      IsRetry(i, n) =>
        /\ sent[i][n].data = sent[i][1].data
        /\ sent[i][n].usage_context = sent[i][1].usage_context
        /\ sent[i][n].server = sent[i][1].server

\* the Error the promise of handleConsentFlow is rejected with
RejectionMessage(how) ==
  CASE how = "timeout" -> "Consent request timed out"
    [] how = "denied" -> "User denied consent for data operation"
    [] OTHER -> "error"

\* the requests of invocation i, whatever its request id
RequestsOf(i) ==
  [ n \in DOMAIN sent[i] |-> [ sent[i][n] EXCEPT !.request_id = None ] ]

\* C13: a consent request that times out has the same outcome as one the
\* user explicitly denies: the caller receives the same failure and the same
\* requests are sent to the server in both cases.
C13_TimeoutSameAsDenial ==
  \A i, j \in Calls :
    (outcome[i] = "timeout" /\ outcome[j] = "denied" /\ rwacArgs[i] = rwacArgs[j]) =>
      /\ RejectionMessage(outcome[i]) = RejectionMessage(outcome[j])
      /\ RequestsOf(i) = RequestsOf(j)

(***************************************************************************)
(* Texts.  A text is a sequence of atoms: the delimiters "{", "}", "." and *)
(* ":" and words, which contain none of the four.  The regular expressions *)
(* of the source only distinguish the delimiters, digits and the prefix    *)
(* "call_", so they are evaluated atom by atom.  The atoms "$$" and "$&"   *)
(* stand for these two characters in a value (String.replace reads them as *)
(* replacement patterns).                                                  *)
(***************************************************************************)
\* the words made of digits only
DigitWords == {"0", "1"}

\* the words that start with "call_" (no other word contains "call_")
CallWords == {"call_1", "call_2", "call_9"}

\* first index at or after i where the atom occurs, 0 if there is none
RECURSIVE IndexFrom(_, _, _)
IndexFrom(text, atom, i) ==
  IF i > Len(text) THEN 0
  ELSE IF text[i] = atom THEN i
  ELSE IndexFrom(text, atom, i + 1)

\* `{${placeholder}}`
PlaceholderPattern(placeholder) == <<"{">> \o placeholder \o <<"}">>

\* placeholder.includes('call_') || /^[^.]+\.\d+\.[^.]+/.test(placeholder)
LooksLikeCallReference(placeholder) ==
  \/ \E k \in DOMAIN placeholder : placeholder[k] \in CallWords
  \/ LET d == IndexFrom(placeholder, ".", 1)
     IN /\ d > 1
        /\ d + 3 <= Len(placeholder)
        /\ placeholder[d + 1] \in DigitWords
        /\ placeholder[d + 2] = "."
        /\ placeholder[d + 3] # "."

\* the exec loop of /\{([^}]+)\}/g from position i
RECURSIVE ScanPlaceholders(_, _)
ScanPlaceholders(text, i) ==
  IF i > Len(text) THEN << >>
  ELSE IF text[i] # "{" THEN ScanPlaceholders(text, i + 1)
  ELSE LET close == IndexFrom(text, "}", i + 1)
       IN IF close = 0 THEN << >>
          ELSE IF close = i + 1 THEN ScanPlaceholders(text, i + 1)
          ELSE LET placeholder == SubSeq(text, i + 1, close - 1)
               IN (IF LooksLikeCallReference(placeholder)
                   THEN << placeholder >> ELSE << >>)
                  \o ScanPlaceholders(text, close + 1)

extractPlaceholdersFromText(text) == ScanPlaceholders(text, 1)

\* null of extractToolCallIdFromPlaceholder
NoToolCallId == << >>

\* /^(call_[^.]+)/ first, then /^([^.]+)\.\d+\.[^.]+$/
extractToolCallIdFromPlaceholder(placeholder) ==
  LET d == IndexFrom(placeholder, ".", 1)
      lead == IF d = 0 THEN placeholder ELSE SubSeq(placeholder, 1, d - 1)
  IN IF Len(placeholder) > 0 /\ placeholder[1] \in CallWords THEN lead
     ELSE IF /\ d > 1
             /\ d + 3 <= Len(placeholder)
             /\ placeholder[d + 1] \in DigitWords
             /\ placeholder[d + 2] = "."
             /\ IndexFrom(placeholder, ".", d + 3) = 0
          THEN lead
          ELSE NoToolCallId

\* the replacement string as String.replace inserts it for one match
RECURSIVE ExpandReplacement(_, _)
ExpandReplacement(value, matched) ==
  IF value = << >> THEN << >>
  ELSE (CASE Head(value) = "$$" -> << "$" >>
          [] Head(value) = "$&" -> matched
          [] OTHER -> << Head(value) >>)
       \o ExpandReplacement(Tail(value), matched)

\* text.replace(new RegExp(escapeRegex(pattern), 'g'), value): escapeRegex
\* makes the expression match the pattern literally
RECURSIVE ReplaceFrom(_, _, _, _)
ReplaceFrom(text, pattern, value, i) ==
  IF i > Len(text) THEN << >>
  ELSE IF /\ i + Len(pattern) - 1 <= Len(text)
          /\ SubSeq(text, i, i + Len(pattern) - 1) = pattern
       THEN ExpandReplacement(value, pattern)
            \o ReplaceFrom(text, pattern, value, i + Len(pattern))
       ELSE << text[i] >> \o ReplaceFrom(text, pattern, value, i + 1)

escapeRegexReplace(text, pattern, value) == ReplaceFrom(text, pattern, value, 1)

\* the pattern occurs in the text
Occurs(pattern, text) ==
  \E i \in 1..Len(text) :
    /\ i + Len(pattern) - 1 <= Len(text)
    /\ SubSeq(text, i, i + Len(pattern) - 1) = pattern

(***************************************************************************)
(* Inputs of a placeholder_message action                                  *)
(***************************************************************************)
Ref(toolCallId, row, column) == << toolCallId, ".", row, ".", column >>

PrefixedRef(serverKey, toolCallId, row, column) ==
  << serverKey, ":" >> \o Ref(toolCallId, row, column)

Token(placeholder) == PlaceholderPattern(placeholder)

NameOf1     == Ref("call_1", "0", "name")
SecondName1 == Ref("call_1", "1", "name")
EmailOf2    == Ref("call_2", "0", "email")
Unknown9    == Ref("call_9", "0", "x")
PrefixedA   == PrefixedRef("serverA", "call_1", "0", "name")
NoteRef     == << "note", ".", "call_1" >>

\* the messages of the placeholder_message actions
Messages ==
  { << "Hi", "{", "}", "{", "note", "}" >>,
    << "Hi", " " >> \o Token(NoteRef),
    << "Hello", " " >> \o Token(NameOf1),
    Token(NameOf1) \o << " " >> \o Token(EmailOf2) \o << " " >> \o Token(NameOf1),
    Token(NameOf1) \o Token(SecondName1) \o << " " >> \o Token(EmailOf2),
    Token(Unknown9),
    Token(Unknown9) \o << " " >> \o Token(EmailOf2),
    Token(PrefixedA) \o << " " >> \o Token(EmailOf2) }

FallbackMessage == << "unavailable" >>

\* what the servers hold for a placeholder: plain words, or values that
\* contain a placeholder token or a replacement pattern
ServerData == {"plain", "special"}

ValueOf(data, placeholder) ==
  CASE placeholder = NameOf1 ->
         IF data = "plain" THEN << "Ada" >> ELSE Token(EmailOf2)
    [] placeholder = SecondName1 -> << "Bob" >>
    [] placeholder = EmailOf2 ->
         IF data = "plain" THEN << "a@x" >> ELSE << "a", "$&", "$$" >>
    [] placeholder = Unknown9 ->
         IF data = "plain" THEN << "nine" >> ELSE << "$&" >>
    [] OTHER -> << "Eve" >>

\* _toolCallIdToServerKey.get(toolCallId)
\* mutant: an id without an entry is looked up as the first server's
LedgerGet_FirstServer(ledger, toolCallId) ==
  IF toolCallId \in DOMAIN ledger THEN ledger[toolCallId] ELSE ConfiguredServers[1]

LedgerGet(ledger, toolCallId) ==
  IF toolCallId \in DOMAIN ledger THEN ledger[toolCallId] ELSE NoServer

\* the ledger and the client cache (keys in insertion order) a message is
\* resolved with: a ledger entry is recorded only after getClient has cached
\* the server's client, and loadTools caches the clients in configuration
\* order
Stores ==
  { [ ledger |-> ( << "call_1" >> :> "serverA" @@ << "call_2" >> :> "serverB" ),
      clients |-> ConfiguredServers ],
    [ ledger |-> ( << "call_2" >> :> "serverB" @@ << "call_1" >> :> "serverB" ),
      clients |-> ConfiguredServers ],
    [ ledger |-> ( << "call_1" >> :> "serverA" ),
      clients |-> ConfiguredServers ],
    [ ledger |-> ( << "call_2" >> :> "serverB" ),
      clients |-> << "serverB" >> ] }

(***************************************************************************)
(* chatView.ts: the resolution engine (placeholder_message)                *)
(***************************************************************************)
\* getAvailableServerKeys()[0]
\* mutant: the last cached client is the fallback
FallbackServer_Last(availableServers) == availableServers[Len(availableServers)]

FallbackServer(availableServers) == availableServers[1]

\* the server key groupPlaceholdersByServer files the placeholder under
RouteOf(placeholder, ledger, availableServers) ==
  LET toolCallId == extractToolCallIdFromPlaceholder(placeholder)
  IN IF toolCallId = NoToolCallId THEN NoServer
     ELSE IF LedgerGet(ledger, toolCallId) # NoServer
          THEN LedgerGet(ledger, toolCallId)
          ELSE IF Len(availableServers) > 0
               THEN FallbackServer(availableServers)
               ELSE NoServer

\* placeholdersByServer[serverKey].push(placeholder), keys in insertion order
AddToGroup(groups, serverKey, placeholder) ==
  IF \E g \in DOMAIN groups : groups[g].serverKey = serverKey
  THEN [ g \in DOMAIN groups |->
           IF groups[g].serverKey = serverKey
           THEN [ groups[g] EXCEPT !.placeholders = Append(@, placeholder) ]
           ELSE groups[g] ]
  ELSE Append(groups, [ serverKey |-> serverKey, placeholders |-> << placeholder >> ])

RECURSIVE GroupFrom(_, _, _, _)
GroupFrom(list, ledger, availableServers, groups) ==
  IF list = << >> THEN groups
  ELSE LET serverKey == RouteOf(Head(list), ledger, availableServers)
       IN GroupFrom(Tail(list), ledger, availableServers,
                    IF serverKey = NoServer THEN groups
                    ELSE AddToGroup(groups, serverKey, Head(list)))

groupPlaceholdersByServer(list, ledger, availableServers) ==
  GroupFrom(list, ledger, availableServers, << >>)

\* mutant: the batch key is derived from the placeholder's tool call
BatchKey_ByToolCall(placeholder, index) == << "placeholder_", placeholder[1] >>

\* `placeholder_${index}`
BatchKey(placeholder, index) == << "placeholder_", index >>

KeyAt(list, i) == BatchKey(list[i], i - 1)

\* batchData of resolvePlaceholdersFromServer: a later assignment to the same
\* key replaces the earlier one
BatchData(list) ==
  [ key \in { KeyAt(list, i) : i \in DOMAIN list } |->
      LET last == CHOOSE i \in DOMAIN list :
                    /\ KeyAt(list, i) = key
                    /\ \A j \in DOMAIN list : KeyAt(list, j) = key => j <= i
      IN PlaceholderPattern(list[last]) ]

DisplayContext ==
  createUsageContext("display", "client", "vscode-chat-view", "user_display")

EmptyMap == [ key \in {} |-> << >> ]

\* what a server may answer to a batch: a network failure, a JSON-RPC error
\* (the consent-required error -32007 apart), a result without a
\* resolved_data object, or resolved_data holding the values of any subset of
\* the keys
FailedReplies == { "throws", "error", "consent_required", "unexpected" }

Reply(kind, resolvedData) == [ kind |-> kind, resolved_data |-> resolvedData ]

NoReply == Reply("none", EmptyMap)

ResolvedData(data, batch, keys) ==
  [ key \in keys |-> ValueOf(data, SubSeq(batch[key], 2, Len(batch[key]) - 1)) ]

ServerReplies(data, batch) ==
  { Reply(kind, EmptyMap) : kind \in FailedReplies }
    \cup { Reply("result", ResolvedData(data, batch, keys)) :
             keys \in SUBSET DOMAIN batch }

\* resolvedValues of resolvePlaceholdersFromServer: each value goes back to
\* the placeholder at the index of its key
MapBack(list, resolvedData) ==
  LET answered == { i \in DOMAIN list : KeyAt(list, i) \in DOMAIN resolvedData }
  IN [ placeholder \in { list[i] : i \in answered } |->
         LET last == CHOOSE i \in answered :
                       /\ list[i] = placeholder
                       /\ \A j \in answered : list[j] = placeholder => j <= i
         IN resolvedData[KeyAt(list, last)] ]

\* Object.assign(resolvedValues, result.value) over the settled results in
\* index order; a null value is skipped
RECURSIVE AssignFrom(_, _, _)
AssignFrom(results, g, resolved) ==
  IF g > Len(results) THEN resolved
  ELSE AssignFrom(results, g + 1,
                  IF results[g].isNull THEN resolved
                  ELSE results[g].value @@ resolved)

SettledValues(results) == AssignFrom(results, 1, EmptyMap)

\* step 4: one replace per placeholder of the list that has a value
RECURSIVE ReplaceAll(_, _, _)
ReplaceAll(text, list, values) ==
  IF list = << >> THEN text
  ELSE ReplaceAll(IF Head(list) \in DOMAIN values
                  THEN escapeRegexReplace(text, PlaceholderPattern(Head(list)),
                                          values[Head(list)])
                  ELSE text,
                  Tail(list), values)

\* the replace calls of step 4, in order
RECURSIVE ReplaceCalls(_, _)
ReplaceCalls(list, values) ==
  IF list = << >> THEN << >>
  ELSE (IF Head(list) \in DOMAIN values
        THEN << [ placeholder |-> Head(list), value |-> values[Head(list)] ] >>
        ELSE << >>)
       \o ReplaceCalls(Tail(list), values)

NoPost == [ posted |-> FALSE, value |-> << >> ]

\* webview.postMessage({ type: 'response', value })
Response(value) == [ posted |-> TRUE, value |-> value ]

\* handlePlaceholderMessageAction up to the await of Promise.allSettled: no
\* placeholder posts the message as it is, no group makes
\* resolveMessagePlaceholdersEfficiently return the message, otherwise one
\* request per group is sent
handlePlaceholderMessageAction ==
  /\ pmPc = "idle"
  /\ LET message == placeholderMessage.message
         found == extractPlaceholdersFromText(message)
         groups == groupPlaceholdersByServer(found, toolCallIdToServerKey, mcpClients)
     IN /\ placeholders' = found
        /\ placeholdersByServer' = groups
        /\ resolveRequests' =
             [ g \in DOMAIN groups |->
                 ResolveRequest(getClient(groups[g].serverKey),
                                BatchData(groups[g].placeholders), DisplayContext) ]
        /\ resolutionResults' =
             [ g \in DOMAIN groups |->
                 [ status |-> "pending", isNull |-> TRUE, value |-> EmptyMap ] ]
        /\ replies' = [ g \in DOMAIN groups |-> NoReply ]
        /\ IF found = << >>
           THEN /\ response' = Response(message)
                /\ pmPc' = "done"
                /\ UNCHANGED resolvedMessage
           ELSE IF groups = << >>
                THEN /\ resolvedMessage' = message
                     /\ response' = Response(placeholderMessage.fallback_message)
                     /\ pmPc' = "done"
                ELSE /\ pmPc' = "awaiting"
                     /\ UNCHANGED << resolvedMessage, response >>
  /\ UNCHANGED << placeholderMessage, storeVars, serverData,
                  completionOrder, resolvedValues, replaced >>
  /\ UNCHANGED outsideResolve

\* the request of one group settles: resolvePlaceholdersFromServer returns
\* the values mapped back to the placeholders, or null
resolvePlaceholdersFromServer(g, reply) ==
  /\ pmPc = "awaiting"
  /\ resolutionResults[g].status = "pending"
  /\ replies' = [ replies EXCEPT ![g] = reply ]
  /\ resolutionResults' =
       [ resolutionResults EXCEPT ![g] =
           IF reply.kind = "result"
           THEN [ status |-> "fulfilled", isNull |-> FALSE,
                  value |-> MapBack(placeholdersByServer[g].placeholders,
                                    reply.resolved_data) ]
           ELSE [ status |-> "fulfilled", isNull |-> TRUE, value |-> EmptyMap ] ]
  /\ completionOrder' = Append(completionOrder, g)
  /\ UNCHANGED << placeholderMessage, storeVars, serverData,
                  pmPc, placeholders, placeholdersByServer, resolveRequests,
                  resolvedValues, resolvedMessage, replaced, response >>
  /\ UNCHANGED outsideResolve

\* steps 3 and 4 and the post of handlePlaceholderMessageAction, for the
\* merged values and the list the replace loop runs over
Substituted(values, list) ==
  /\ pmPc = "awaiting"
  /\ \A g \in DOMAIN resolutionResults : resolutionResults[g].status = "fulfilled"
  /\ resolvedValues' = values
  /\ replaced' = ReplaceCalls(list, values)
  /\ resolvedMessage' = ReplaceAll(placeholderMessage.message, list, values)
  /\ response' = IF resolvedMessage' = placeholderMessage.message
                 THEN Response(placeholderMessage.fallback_message)
                 ELSE Response(resolvedMessage')
  /\ pmPc' = "done"
  /\ UNCHANGED << placeholderMessage, storeVars, serverData,
                  placeholders, placeholdersByServer, resolveRequests,
                  resolutionResults, replies, completionOrder >>
  /\ UNCHANGED outsideResolve

\* the placeholders of the groups in the order their requests settled
RECURSIVE InCompletionOrder(_)
InCompletionOrder(order) ==
  IF order = << >> THEN << >>
  ELSE placeholdersByServer[Head(order)].placeholders \o InCompletionOrder(Tail(order))

\* mutant: one failed request discards the values of all (Promise.all)
resolveMessagePlaceholdersEfficiently_AllOrNothing ==
  Substituted(IF \E g \in DOMAIN resolutionResults : resolutionResults[g].isNull
              THEN EmptyMap ELSE SettledValues(resolutionResults),
              placeholders)

\* mutant: the replace loop runs in the order the requests settled
resolveMessagePlaceholdersEfficiently_InCompletionOrder ==
  Substituted(SettledValues(resolutionResults), InCompletionOrder(completionOrder))

\* Promise.allSettled has settled: merge, substitute, post
resolveMessagePlaceholdersEfficiently ==
  Substituted(SettledValues(resolutionResults), placeholders)

InitResolve ==
  /\ FormIdle
  /\ DisplayIdle
  /\ placeholderMessage \in
       { [ message |-> m, fallback_message |-> FallbackMessage ] : m \in Messages }
  /\ \E store \in Stores :
       /\ toolCallIdToServerKey = store.ledger
       /\ toolCallIdToInfo =
            [ id \in DOMAIN store.ledger |->
                LET toolName == CHOOSE t \in Tools : ToolServerKey(t) = store.ledger[id]
                IN ToolInfo(toolName, ToolSensitive(toolName)) ]
       /\ mcpClients = store.clients
  /\ serverData \in ServerData
  /\ ResolveIdle
  /\ displayInput = << "none", NoCtx >>
  /\ ConsentIdle
  /\ ChatIdle
  /\ SessionWith(mcpClients)

NextResolve ==
  \/ handlePlaceholderMessageAction
  \/ \E g \in DOMAIN placeholdersByServer :
       \E reply \in ServerReplies(serverData, resolveRequests[g].data) :
         resolvePlaceholdersFromServer(g, reply)
  \/ resolveMessagePlaceholdersEfficiently

SpecResolve == InitResolve /\ [][NextResolve]_vars


(***************************************************************************)
(* Claims about the resolution engine                                      *)
(***************************************************************************)
GroupFailed(g) == replies[g].kind \in FailedReplies

GroupSucceeded(g) == replies[g].kind = "result"

\* the group's server returned a value under the key of the i-th placeholder
Answered(g, i) ==
  /\ GroupSucceeded(g)
  /\ KeyAt(placeholdersByServer[g].placeholders, i) \in DOMAIN replies[g].resolved_data

\* a replace call of step 4 was made for the placeholder
ReplaceCalled(placeholder) ==
  \E c \in DOMAIN replaced : replaced[c].placeholder = placeholder

\* the request of group g carries the placeholder's token
Carries(g, placeholder) ==
  \E key \in DOMAIN resolveRequests[g].data :
    resolveRequests[g].data[key] = Token(placeholder)

\* the server the ledger records for the placeholder's tool-call id
Owner(placeholder) ==
  LedgerGet(toolCallIdToServerKey, extractToolCallIdFromPlaceholder(placeholder))

\* C3: in one resolution attempt over several servers, if the batch call to
\* one server fails (throws, returns an error, or returns an unexpected
\* shape), every placeholder owned by another server whose call succeeded is
\* still substituted with its value (the returned value is merged and the
\* replace of its token carried out; with plain values the token is gone and
\* the value stands in the text), and the failing server's placeholders have
\* no value, no replace call and remain in the text.
C3_FailureIsolated ==
  (pmPc = "done" /\ \E f \in DOMAIN placeholdersByServer : GroupFailed(f)) =>
    \A g \in DOMAIN placeholdersByServer :
      \A i \in DOMAIN placeholdersByServer[g].placeholders :
        LET placeholder == placeholdersByServer[g].placeholders[i]
            value == ValueOf(serverData, placeholder)
        IN /\ GroupFailed(g) =>
                /\ placeholder \notin DOMAIN resolvedValues
                /\ ~ReplaceCalled(placeholder)
                /\ Occurs(Token(placeholder), resolvedMessage)
           /\ Answered(g, i) =>
                /\ placeholder \in DOMAIN resolvedValues
                /\ resolvedValues[placeholder] = value
                /\ \E c \in DOMAIN replaced :
                     replaced[c] = [ placeholder |-> placeholder, value |-> value ]
                /\ serverData = "plain" =>
                     /\ ~Occurs(Token(placeholder), resolvedMessage)
                     /\ Occurs(value, resolvedMessage)

C3_Witness ==
  /\ pmPc = "done"
  /\ serverData = "plain"
  /\ \E f, g \in DOMAIN placeholdersByServer :
       /\ GroupFailed(f)
       /\ completionOrder = << f, g >>
       /\ \A i \in DOMAIN placeholdersByServer[g].placeholders : Answered(g, i)
  /\ response = Response(resolvedMessage)

C9_OneBatchPerServer ==
  pmPc \in { "awaiting", "done" } =>
    /\ \A g, h \in DOMAIN resolveRequests :
         resolveRequests[g].server = resolveRequests[h].server => g = h
    /\ \A k \in { ConfiguredServers[n] : n \in DOMAIN ConfiguredServers } :
         LET owned == { i \in DOMAIN placeholders : Owner(placeholders[i]) = k }
         IN owned # {} =>
              \E g \in DOMAIN resolveRequests :
                /\ resolveRequests[g].server = k
                /\ resolveRequests[g].method = "mcpp/resolve_placeholders"
                /\ \A i \in owned :
                     Cardinality({ key \in DOMAIN resolveRequests[g].data :
                                     resolveRequests[g].data[key] = Token(placeholders[i]) })
                       = Cardinality({ j \in owned : placeholders[j] = placeholders[i] })
                /\ GroupSucceeded(g) =>
                     \A key \in DOMAIN replies[g].resolved_data :
                       LET sentAs == resolveRequests[g].data[key]
                           placeholder == SubSeq(sentAs, 2, Len(sentAs) - 1)
                       IN /\ placeholder \in DOMAIN resolutionResults[g].value
                          /\ resolutionResults[g].value[placeholder]
                               = replies[g].resolved_data[key]

C9_Witness ==
  /\ pmPc = "done"
  /\ Len(resolveRequests) = 2
  /\ \E g \in DOMAIN resolveRequests :
       /\ Cardinality(DOMAIN resolveRequests[g].data) = 2
       /\ \A key \in DOMAIN resolveRequests[g].data :
            resolveRequests[g].data[key] = Token(NameOf1)
       /\ DOMAIN replies[g].resolved_data = { BatchKey(NameOf1, 1) }
       /\ NameOf1 \in DOMAIN resolvedValues

\* the value each placeholder has by the replies alone: the server's value
\* if the server of its group returned one under a key of the placeholder
ValuesByIdentity ==
  [ placeholder \in
      { placeholders[i] : i \in
          { i \in DOMAIN placeholders :
              \E g \in DOMAIN placeholdersByServer :
                \E j \in DOMAIN placeholdersByServer[g].placeholders :
                  /\ placeholdersByServer[g].placeholders[j] = placeholders[i]
                  /\ Answered(g, j) } } |->
      ValueOf(serverData, placeholder) ]

\* C10: for a fixed message, ledger and set of per-server replies, the
\* substituted text of a resolution attempt is the same for every order in
\* which the per-server calls complete: it is the text the message, the
\* ledger and the replies determine, whatever completionOrder is.
C10_TextIndependentOfCompletionOrder ==
  (pmPc = "done" /\ placeholdersByServer # << >>) =>
    resolvedMessage =
      ReplaceAll(placeholderMessage.message,
                 extractPlaceholdersFromText(placeholderMessage.message),
                 ValuesByIdentity)

C10_Witness ==
  /\ pmPc = "done"
  /\ serverData = "special"
  /\ completionOrder = << 2, 1 >>
  /\ \A g \in DOMAIN placeholdersByServer :
       \A i \in DOMAIN placeholdersByServer[g].placeholders : Answered(g, i)
  /\ resolvedMessage # placeholderMessage.message

\* C11: when a server answers its batch in a message-resolution attempt with
\* a consent-required error (-32007), the consent flow is started for it (a
\* pending consent is stored and the prompt is presented); the error is not
\* counted as a resolution failure unless that consent flow is denied, fails
\* or times out.
C11_ConsentRequiredStartsConsentFlow ==
  \A g \in DOMAIN replies :
    replies[g].kind = "consent_required" =>
      \E i \in Calls :
        /\ consentRequest[i].present
        /\ dialog[i] # "none"
        /\ i \in pendingConsents \/ approvedArg[i] # "none" \/ outcome[i] = "timeout"
        /\ resolutionResults[g].isNull =>
             outcome[i] \in { "denied", "timeout", "error" }

(***************************************************************************)
(* chatView.ts: the conversation (handleQuery, runConversation, the MCPP   *)
(* actions and handleCallTool).  A content carries the set of its origins: *)
(* who produced the information in it.  What the LLM writes derives from   *)
(* everything it was passed, so an LLM message has the origins of the      *)
(* whole chat history it answered.                                         *)
(***************************************************************************)
\* origins of the values obtained from mcpp/resolve_placeholders and
\* mcpp/get_data
ObtainedOrigins == { "resolved", "fetched" }

Message(role, kind, origins) == [ role |-> role, kind |-> kind, origins |-> origins ]

HistoryOrigins(messages) ==
  UNION { messages[n].origins : n \in DOMAIN messages }

\* the ids the LLM gives its tool calls and names in its actions
ToolCallIds == { << "call_1" >>, << "call_2" >> }

\* the one argument of a tool call, as the LLM writes it
ArgValues ==
  { << "hello" >>,
    Token(NameOf1),
    Token(PrefixedRef("serverB", "call_1", "0", "name")),
    Token(PrefixedA),
    << "to", " " >> \o Token(PrefixedA) }

NoToolCall == [ id |-> << >>, toolName |-> "none", value |-> << >> ]

\* /^{([^}]+)}$/
MatchWithoutServer(value) ==
  /\ Len(value) >= 3
  /\ value[1] = "{"
  /\ IndexFrom(value, "}", 1) = Len(value)

\* /^{([^:}]+):([^}]+)}$/
MatchWithServer(value) ==
  /\ MatchWithoutServer(value)
  /\ IndexFrom(value, ":", 2) > 2
  /\ IndexFrom(value, ":", 2) < Len(value) - 1

\* matchWithServer[1]
ServerKeyPart(value) == SubSeq(value, 2, IndexFrom(value, ":", 2) - 1)

\* mutant: the placeholder part starts after the last ':'
PlaceholderPart_AfterLastColon(value) ==
  LET last == CHOOSE i \in DOMAIN value :
                /\ value[i] = ":"
                /\ \A j \in (i + 1)..Len(value) : value[j] # ":"
  IN SubSeq(value, last + 1, Len(value) - 1)

\* matchWithServer[2]
PlaceholderPart(value) == SubSeq(value, IndexFrom(value, ":", 2) + 1, Len(value) - 1)

\* text.split('.')[0]
FirstSegment(text) ==
  IF IndexFrom(text, ".", 1) = 0 THEN text
  ELSE SubSeq(text, 1, IndexFrom(text, ".", 1) - 1)

\* placeholderServerKey of handleCallTool for one argument value
PlaceholderServerKey(value, ledger) ==
  IF MatchWithServer(value)
  THEN (IF Len(ServerKeyPart(value)) = 1 THEN ServerKeyPart(value)[1] ELSE "other")
  ELSE IF MatchWithoutServer(value)
       THEN LedgerGet(ledger, FirstSegment(SubSeq(value, 2, Len(value) - 1)))
       ELSE NoServer

\* mutant: no argument is marked for cross-server resolution
MarkedForResolution_Never(placeholderServerKey, serverKey) == FALSE

\* placeholderServerKey && serverKey && placeholderServerKey !== serverKey
MarkedForResolution(placeholderServerKey, serverKey) ==
  /\ placeholderServerKey # NoServer
  /\ serverKey # NoServer
  /\ placeholderServerKey # serverKey

\* McpClient.resolveData and McpClient.callTool: the prefix is stripped
\* before the placeholder is sent
StripServerKey(value) ==
  IF MatchWithServer(value) THEN Token(PlaceholderPart(value)) ELSE value

\* handleCallTool: a placeholder without a prefix gets the tool's server key
AddServerKey(value, serverKey) ==
  IF ~MatchWithServer(value) /\ MatchWithoutServer(value)
  THEN << "{", serverKey, ":" >> \o SubSeq(value, 2, Len(value))
  ELSE value

ResolveDataRequest(server, value) ==
  [ method |-> "mcpp/resolve_placeholders", server |-> server,
    value |-> StripServerKey(value), origins |-> { "llm" } ]

CallToolRequest(server, value, origins) ==
  [ method |-> "tools/call", server |-> server,
    value |-> StripServerKey(value), origins |-> origins ]

\* the messages getLlmResponse may return
LlmKinds ==
  { "text", "text_with_placeholders", "tool_calls", "reference_request",
    "display_data", "display_data_with_context", "placeholder_message",
    "direct_message" }

Post(type, origins) == [ type |-> type, origins |-> origins ]

ToolCall(id, toolName, value) == [ id |-> id, toolName |-> toolName, value |-> value ]

\* the tool calls the LLM may make
ToolCalls ==
  { ToolCall(<< "call_1" >>, "toolA", Token(PrefixedRef("serverB", "call_1", "0", "name"))),
    ToolCall(<< "call_2" >>, "toolB", Token(PrefixedA)),
    ToolCall(<< "call_2" >>, "toolB", Token(NameOf1)),
    ToolCall(<< "call_1" >>, "toolA", << "hello" >>),
    ToolCall(<< "call_2" >>, "toolA", Token(PrefixedA)),
    ToolCall(<< "call_1" >>, "toolX", Token(PrefixedA)),
    ToolCall(<< "call_1" >>, "toolA", << "to", " " >> \o Token(PrefixedA)) }

\* the value a server returns for a placeholder of a tool argument
ResolvedArgument == << "Ada" >>

Argument(value, origins) == [ value |-> value, origins |-> origins ]

Chains == 1..MaxChains

\* handleQuery: push the user's query and start runConversation
handleQuery ==
  /\ Len(chatHistory) + cleared < MaxHistory
  /\ \E c \in Chains :
       /\ chainPc[c] = "idle"
       /\ \A d \in Chains : d < c => chainPc[d] # "idle"
       /\ chainPc' = [ chainPc EXCEPT ![c] = "llm" ]
  /\ chatHistory' = Append(chatHistory, Message("user", "query", { "user" }))
  /\ UNCHANGED << toolCall, argValue, callSent, lastPost, storeVars >>
  /\ UNCHANGED << cleared, confirmVars, outsideChat >>

\* handleCallTool from the ledger record on, with the argument as it stands
\* and the requests sent so far: record the tool call, add the server key to
\* a bare placeholder, then ask for confirmation (sensitive tool) or call
Dispatch(c, call, value, origins, requests) ==
  LET serverKey == ToolServerKey(call.toolName)
      withKey == AddServerKey(value, serverKey)
  IN /\ toolCallIdToInfo' =
          (call.id :> ToolInfo(call.toolName, ToolSensitive(call.toolName)))
            @@ toolCallIdToInfo
     /\ toolCallIdToServerKey' = (call.id :> serverKey) @@ toolCallIdToServerKey
     /\ argValue' = [ argValue EXCEPT ![c] = Argument(withKey, origins) ]
     /\ IF ToolSensitive(call.toolName)
        THEN \* askForConfirmation: the prompt is posted, the resolver replaced
             /\ chainPc' = [ chainPc EXCEPT ![c] = "confirmation" ]
             /\ callSent' = [ callSent EXCEPT ![c] = requests ]
             /\ confirmationResolver' = c
             /\ prompts' = prompts \cup { c }
        ELSE /\ chainPc' = [ chainPc EXCEPT ![c] = "call_tool" ]
             /\ UNCHANGED confirmVars
             /\ callSent' = [ callSent EXCEPT ![c] =
                                Append(requests,
                                       CallToolRequest(getClient(serverKey), withKey, origins)) ]
     /\ UNCHANGED mcpClients

\* handleCallTool up to its first request: an argument marked for
\* cross-server resolution is sent to the other server's client first
handleCallTool(c, call, origins) ==
  LET placeholderServerKey == PlaceholderServerKey(call.value, toolCallIdToServerKey)
  IN /\ toolCall' = [ toolCall EXCEPT ![c] = call ]
     /\ IF MarkedForResolution(placeholderServerKey, ToolServerKey(call.toolName))
        THEN /\ callSent' = [ callSent EXCEPT ![c] =
                                << ResolveDataRequest(getClient(placeholderServerKey),
                                                      call.value) >> ]
             /\ argValue' = [ argValue EXCEPT ![c] = Argument(call.value, origins) ]
             /\ chainPc' = [ chainPc EXCEPT ![c] = "resolve_data" ]
             /\ UNCHANGED storeVars
             /\ UNCHANGED confirmVars
        ELSE Dispatch(c, call, call.value, origins, << >>)

\* runConversation: getLlmResponse returned a message; it is pushed and
\* handled up to the first request the handler awaits
runConversation(c, kind, id, call) ==
  /\ chainPc[c] = "llm"
  /\ Len(chatHistory) + cleared < MaxHistory
  /\ LET origins == { "llm" } \cup HistoryOrigins(chatHistory)
         pushed == Append(chatHistory, Message("assistant", "message", origins))
         known == id \in DOMAIN toolCallIdToServerKey
         recorded == LedgerGet(toolCallIdToServerKey, id) # NoServer
     IN CASE kind \in { "text", "direct_message" } ->
               /\ chatHistory' = pushed
               /\ lastPost' = Post("response", origins)
               /\ chainPc' = [ chainPc EXCEPT ![c] = "idle" ]
               /\ UNCHANGED << toolCall, argValue, callSent, storeVars, confirmVars >>
          [] kind \in { "text_with_placeholders", "placeholder_message" } ->
               /\ chatHistory' = pushed
               /\ chainPc' = [ chainPc EXCEPT ![c] = "placeholder_message" ]
               /\ UNCHANGED << toolCall, argValue, callSent, lastPost, storeVars, confirmVars >>
          [] kind = "display_data_with_context" ->
               /\ chatHistory' = pushed
               /\ lastPost' = Post("response", origins)
               /\ chainPc' = [ chainPc EXCEPT ![c] = "display_data" ]
               /\ UNCHANGED << toolCall, argValue, callSent, storeVars, confirmVars >>
          [] kind = "display_data" ->
               \* handleGetData: an id the ledger does not have is reported
               \* to the LLM and the conversation runs on
               /\ lastPost' = Post("response", origins)
               /\ IF known
                  THEN /\ chatHistory' = pushed
                       /\ chainPc' = [ chainPc EXCEPT ![c] = "get_data" ]
                  ELSE /\ Len(pushed) + cleared < MaxHistory
                       /\ chatHistory' =
                            Append(pushed, Message("user", "not_recognized", { "host" } \cup origins))
                       /\ UNCHANGED chainPc
               /\ UNCHANGED << toolCall, argValue, callSent, storeVars, confirmVars >>
          [] kind = "reference_request" ->
               /\ IF recorded
                  THEN /\ chatHistory' = pushed
                       /\ chainPc' = [ chainPc EXCEPT ![c] = "reference_request" ]
                  ELSE /\ Len(pushed) + cleared < MaxHistory
                       /\ chatHistory' =
                            Append(pushed, Message("system", "not_recognized", { "host" } \cup origins))
                       /\ UNCHANGED chainPc
               /\ UNCHANGED << toolCall, argValue, callSent, lastPost, storeVars, confirmVars >>
          [] kind = "tool_calls" ->
               /\ chatHistory' =
                    Append(chatHistory, Message("assistant", "tool_calls", origins))
               /\ handleCallTool(c, call, origins)
               /\ UNCHANGED lastPost
  /\ UNCHANGED << cleared, outsideChat >>

\* getLlmResponse threw: the catch of runConversation posts the error
getLlmResponseThrows(c) ==
  /\ chainPc[c] = "llm"
  /\ lastPost' = Post("response", { "host" })
  /\ chainPc' = [ chainPc EXCEPT ![c] = "idle" ]
  /\ UNCHANGED << chatHistory, toolCall, argValue, callSent, storeVars >>
  /\ UNCHANGED << cleared, confirmVars, outsideChat >>

\* handleCallTool returns: its locals are gone
HandleCallToolEnds(c) ==
  /\ toolCall' = [ toolCall EXCEPT ![c] = NoToolCall ]
  /\ argValue' = [ argValue EXCEPT ![c] = Argument(<< >>, {}) ]
  /\ callSent' = [ callSent EXCEPT ![c] = << >> ]

\* resolveData returned: a resolved value replaces the argument
resolveDataReturns(c, resolved) ==
  /\ chainPc[c] = "resolve_data"
  /\ IF resolved
     THEN Dispatch(c, toolCall[c], ResolvedArgument, { "resolved" }, callSent[c])
     ELSE Dispatch(c, toolCall[c], argValue[c].value, argValue[c].origins, callSent[c])
  /\ UNCHANGED << chatHistory, toolCall, lastPost >>
  /\ UNCHANGED << cleared, outsideChat >>

\* a request awaited in handleCallTool or in a handler threw: the catch of
\* runConversation posts the error, nothing is pushed
requestThrows(c) ==
  /\ chainPc[c] \in { "resolve_data", "call_tool" }
  /\ lastPost' = Post("response", { "host" })
  /\ chainPc' = [ chainPc EXCEPT ![c] = "idle" ]
  /\ HandleCallToolEnds(c)
  /\ UNCHANGED << chatHistory, storeVars >>
  /\ UNCHANGED << cleared, confirmVars, outsideChat >>

\* the user answers the prompt of chain d: the webview removes the prompt and
\* posts confirmToolCallResponse, which carries no id; the host hands it to
\* _confirmationResolver, the promise of the chain that asked last, and
\* clears the resolver
confirmationResponse(d, confirmed) ==
  /\ d \in prompts
  /\ prompts' = prompts \ { d }
  /\ confirmationResolver' = None
  /\ IF confirmationResolver = None
     THEN UNCHANGED << chatHistory, chainPc, toolCall, argValue, callSent, lastPost >>
     ELSE LET c == confirmationResolver
          IN IF confirmed
             THEN /\ callSent' = [ callSent EXCEPT ![c] =
                                     Append(@, CallToolRequest(getClient(ToolServerKey(toolCall[c].toolName)),
                                                               argValue[c].value, argValue[c].origins)) ]
                  /\ chainPc' = [ chainPc EXCEPT ![c] = "call_tool" ]
                  /\ UNCHANGED << chatHistory, lastPost >>
                  /\ UNCHANGED << toolCall, argValue >>
             ELSE /\ Len(chatHistory) + cleared < MaxHistory
                  /\ lastPost' = Post("response", { "host" })
                  /\ chatHistory' = Append(chatHistory, Message("tool", "cancelled", { "host" }))
                  /\ chainPc' = [ chainPc EXCEPT ![c] = "llm" ]
                  /\ HandleCallToolEnds(c)
  /\ UNCHANGED storeVars
  /\ UNCHANGED << cleared, outsideChat >>

\* callTool returned: the tool message holds the server's response text (or
\* the error), then runConversation is started again
ToolReturned(c, status, content) ==
  /\ chainPc[c] = "call_tool"
  /\ Len(chatHistory) + cleared < MaxHistory
  /\ chatHistory' = Append(chatHistory, Message("tool", status, content))
  /\ lastPost' = IF status = "result" THEN Post("toolResponse", { "tool" })
                 ELSE Post("response", { "tool", "host" })
  /\ chainPc' = [ chainPc EXCEPT ![c] = "llm" ]
  /\ HandleCallToolEnds(c)
  /\ UNCHANGED storeVars
  /\ UNCHANGED << cleared, confirmVars, outsideChat >>

\* mutant: the tool message repeats the arguments the tool was called with
callToolReturns_WithArguments(c, status) ==
  ToolReturned(c, status, { "tool" } \cup argValue[c].origins)

callToolReturns(c, status) ==
  ToolReturned(c, status,
               IF status = "unparsable" /\ ToolSensitive(toolCall[c].toolName)
               THEN { "host" } ELSE { "tool" })

\* handlePlaceholderMessageAction has its text: the substituted message, or
\* the message or fallback the LLM wrote; it goes to the webview only
placeholderMessageShown(c, resolved) ==
  /\ chainPc[c] = "placeholder_message"
  /\ lastPost' = Post("response",
                      IF resolved THEN { "llm", "resolved" } ELSE { "llm" })
  /\ chainPc' = [ chainPc EXCEPT ![c] = "idle" ]
  /\ UNCHANGED << chatHistory, toolCall, argValue, callSent, storeVars >>
  /\ UNCHANGED << cleared, confirmVars, outsideChat >>

\* handleGetData: getData returned the data (posted as dataView) or threw
getDataReturns(c, fetched) ==
  /\ chainPc[c] = "get_data"
  /\ lastPost' = IF fetched THEN Post("dataView", { "fetched" })
                 ELSE Post("response", { "host" })
  /\ chainPc' = [ chainPc EXCEPT ![c] = "idle" ]
  /\ UNCHANGED << chatHistory, toolCall, argValue, callSent, storeVars >>
  /\ UNCHANGED << cleared, confirmVars, outsideChat >>

\* handleDisplayDataAction with a usage context: getData and
\* resolveWithAccessControl returned the data (posted as dataResponse) or
\* one of them threw
displayDataShown(c, resolved) ==
  /\ chainPc[c] = "display_data"
  /\ lastPost' = IF resolved THEN Post("dataResponse", { "fetched", "resolved" })
                 ELSE Post("response", { "host" })
  /\ chainPc' = [ chainPc EXCEPT ![c] = "idle" ]
  /\ UNCHANGED << chatHistory, toolCall, argValue, callSent, storeVars >>
  /\ UNCHANGED << cleared, confirmVars, outsideChat >>

\* handleReferenceRequestAction: getReferencePlaceholder returned a
\* placeholder or nothing; the system message goes to the LLM
referenceReturns(c, found) ==
  /\ chainPc[c] = "reference_request"
  /\ Len(chatHistory) + cleared < MaxHistory
  /\ chatHistory' =
       Append(chatHistory,
              IF found THEN Message("system", "reference", { "llm", "reference" })
              ELSE Message("system", "no_reference", { "llm", "host" }))
  /\ chainPc' = [ chainPc EXCEPT ![c] = "llm" ]
  /\ UNCHANGED << toolCall, argValue, callSent, lastPost, storeVars >>
  /\ UNCHANGED << cleared, confirmVars, outsideChat >>

Init ==
  /\ FormIdle
  /\ DisplayIdle
  /\ ChatIdle
  /\ toolCallIdToServerKey = << >>
  /\ toolCallIdToInfo = << >>
  /\ mcpClients = ConfiguredServers
  /\ SessionLoaded
  /\ placeholderMessage = [ message |-> << >>, fallback_message |-> << >> ]
  /\ serverData = "plain"
  /\ ResolveIdle
  /\ displayInput = << "none", NoCtx >>
  /\ ConsentIdle

\* the webview's 'clearChat' message: this._chatHistory = []
clearChat ==
  /\ chatHistory # << >>
  /\ chatHistory' = << >>
  /\ prompts' = {}
  /\ UNCHANGED confirmationResolver
  /\ cleared' = cleared + Len(chatHistory)
  /\ UNCHANGED << chainPc, toolCall, argValue, callSent, lastPost, storeVars >>
  /\ UNCHANGED outsideChat

Next ==
  \/ handleQuery
  \/ clearChat
  \/ \E c \in Chains, kind \in LlmKinds, id \in ToolCallIds, call \in ToolCalls :
       runConversation(c, kind, id, call)
  \/ \E c \in Chains : getLlmResponseThrows(c)
  \/ \E c \in Chains, resolved \in BOOLEAN : resolveDataReturns(c, resolved)
  \/ \E c \in Chains : requestThrows(c)
  \/ \E d \in Chains, confirmed \in BOOLEAN : confirmationResponse(d, confirmed)
  \/ \E c \in Chains, status \in { "result", "error", "unparsable" } :
       callToolReturns(c, status)
  \/ \E c \in Chains, resolved \in BOOLEAN : placeholderMessageShown(c, resolved)
  \/ \E c \in Chains, fetched \in BOOLEAN : getDataReturns(c, fetched)
  \/ \E c \in Chains, resolved \in BOOLEAN : displayDataShown(c, resolved)
  \/ \E c \in Chains, found \in BOOLEAN : referenceReturns(c, found)

Spec == Init /\ [][Next]_vars

(***************************************************************************)
(* Claims about the conversation                                           *)
(***************************************************************************)
\* C1: after any sequence of tool calls, reference requests,
\* placeholder-message resolutions and display-data actions, no message in
\* the chat history passed to getLlmResponse contains a value obtained from
\* mcpp/resolve_placeholders or mcpp/get_data; such values only reach the
\* webview or the arguments of a tools/call request.
C1_NoObtainedValueInChatHistory ==
  \A n \in DOMAIN chatHistory : chatHistory[n].origins \cap ObtainedOrigins = {}

C1_Witness ==
  /\ lastPost.origins \cap ObtainedOrigins # {}
  /\ \E c \in Chains :
       /\ chainPc[c] = "call_tool"
       /\ \E n \in DOMAIN callSent[c] :
            /\ callSent[c][n].method = "tools/call"
            /\ "resolved" \in callSent[c][n].origins
  /\ Len(chatHistory) >= 4
  /\ chatHistory[Len(chatHistory)].role = "assistant"

\* the tool call of chain c has an argument that is exactly one placeholder
\* whose prefix names the configured server k, which is not the tool's server
CrossServerArgument(c, k) ==
  /\ toolCall[c] # NoToolCall
  /\ MatchWithServer(toolCall[c].value)
  /\ ServerKeyPart(toolCall[c].value) = << k >>
  /\ ToolServerKey(toolCall[c].toolName) # NoServer
  /\ ToolServerKey(toolCall[c].toolName) # k

\* C8: in handleCallTool, a string argument that is exactly one placeholder
\* with an explicit prefix naming a configured server other than the active
\* tool's server is resolved by a request sent to the prefixed server's
\* client and never by a resolve request to the active tool's server, and
\* this happens before the tool is dispatched.
C8_CrossServerResolvedFirst ==
  \A c \in Chains :
    \A k \in { ConfiguredServers[n] : n \in DOMAIN ConfiguredServers } :
      CrossServerArgument(c, k) =>
        /\ Len(callSent[c]) >= 1
        /\ callSent[c][1] =
             ResolveDataRequest(k, toolCall[c].value)
        /\ callSent[c][1].value = Token(PlaceholderPart(toolCall[c].value))
        /\ \A n \in DOMAIN callSent[c] :
             /\ callSent[c][n].method = "mcpp/resolve_placeholders" =>
                  callSent[c][n].server = k
             /\ callSent[c][n].method = "tools/call" =>
                  /\ n = 2
                  /\ callSent[c][n].server = ToolServerKey(toolCall[c].toolName)
                  /\ chainPc[c] # "resolve_data"
                  /\ callSent[c][n].value \in { ResolvedArgument,
                                                 Token(PlaceholderPart(toolCall[c].value)) }

C8_Witness ==
  \E c \in Chains :
    /\ CrossServerArgument(c, "serverB")
    /\ Len(callSent[c]) = 2
    /\ callSent[c][1].server = "serverB"
    /\ callSent[c][2] = CallToolRequest("serverA", ResolvedArgument, { "resolved" })

(***************************************************************************)
(* chatView.ts: the session stores.  getClient and the client cache,       *)
(* loadTools, refreshConfiguration and the ledger record of handleCallTool *)
(***************************************************************************)
\* the 'servers' settings a session may run with
Configurations ==
  { << "serverB", "serverA" >>, << "serverA", "serverB" >>, << "serverA" >> }

\* the arguments getClient is called with: none, a configured key, a key
\* that is not configured
ServerKeyArguments == { NoServer, "serverA", "serverB", "serverX" }

\* getClient(serverKey) on the cache (keys, clients): the cached client of
\* the chosen key, or a new McpClient that is cached under it
getClientFrom(serverKey, keys, clients, given) ==
  LET chosen == chosenServerKey(servers, serverKey)
      cached == chosen \in DOMAIN clients
      client == IF cached THEN clients[chosen] ELSE Len(instances) + 1
  IN /\ mcpClients' = IF cached THEN keys ELSE Append(keys, chosen)
     /\ clientOf' = IF cached THEN clients ELSE (chosen :> client) @@ clients
     /\ instances' = IF cached THEN instances ELSE Append(instances, chosen)
     /\ returned' = [ given EXCEPT ![chosen] = @ \cup { client } ]
     /\ lastGetClient' = [ serverKey |-> serverKey, chosenServerKey |-> chosen,
                           client |-> client ]

\* a handler calls getClient (handleGetData, the MCPP action handlers,
\* resolveWithAccessControl, resolvePlaceholdersFromServer)
getClientCalled(serverKey) ==
  /\ getClientFrom(serverKey, mcpClients, clientOf, returned)
  /\ UNCHANGED << servers, toolNameToServerKey, toolSensitivity, loadToolsPc,
                  allTools, tools, retiredUpTo, toolCallIdToServerKey,
                  toolCallIdToInfo >>
  /\ UNCHANGED outsideSession

\* loadTools up to the await of the first listTools: the tool maps are
\* cleared and the first server's client is requested
loadTools(r, keys, clients, given) ==
  /\ toolNameToServerKey' = << >>
  /\ toolSensitivity' = << >>
  /\ getClientFrom(servers[1], keys, clients, given)
  /\ loadToolsPc' = [ loadToolsPc EXCEPT ![r] = 1 ]
  /\ allTools' = [ allTools EXCEPT ![r] = {} ]
  /\ UNCHANGED tools

\* resolveWebviewView: the view is shown, loadTools is started
resolveWebviewView ==
  /\ loadToolsPc[1] = 0
  /\ loadTools(1, mcpClients, clientOf, returned)
  /\ UNCHANGED << servers, retiredUpTo, toolCallIdToServerKey, toolCallIdToInfo >>
  /\ UNCHANGED outsideSession

\* listTools of the server the run waits for returned (listed) or failed;
\* the run goes on to the next server's client or ends
listToolsReturns(r, listed) ==
  LET n == loadToolsPc[r]
  IN /\ n \in DOMAIN servers
     /\ IF listed
        THEN /\ toolNameToServerKey' =
                  [ toolName \in ToolsOf(servers[n]) |-> servers[n] ] @@ toolNameToServerKey
             /\ toolSensitivity' =
                  [ toolName \in ToolsOf(servers[n]) |-> ToolSensitive(toolName) ]
                    @@ toolSensitivity
        ELSE UNCHANGED << toolNameToServerKey, toolSensitivity >>
     /\ loadToolsPc' = [ loadToolsPc EXCEPT ![r] = n + 1 ]
     /\ LET pushed == IF listed THEN allTools[r] \cup ToolsOf(servers[n])
                       ELSE allTools[r]
        IN IF n < Len(servers)
           THEN /\ getClientFrom(servers[n + 1], mcpClients, clientOf, returned)
                /\ allTools' = [ allTools EXCEPT ![r] = pushed ]
                /\ UNCHANGED tools
           ELSE \* this._tools = allTools, and the run returns
                /\ tools' = pushed
                /\ allTools' = [ allTools EXCEPT ![r] = {} ]
                /\ UNCHANGED << mcpClients, clientOf, instances, returned,
                                lastGetClient >>
     /\ UNCHANGED << servers, retiredUpTo, toolCallIdToServerKey, toolCallIdToInfo >>
     /\ UNCHANGED outsideSession

\* mutant: refreshConfiguration keeps the cached clients
ClearClients_Kept(keys) == keys

\* this._mcpClients.clear()
ClearClients(keys) == << >>

\* refreshConfiguration: every map is cleared, then loadTools is started
refreshConfiguration ==
  \E r \in LoadToolsRuns :
    /\ r > 1
    /\ loadToolsPc[r] = 0
    /\ \A q \in 2..(r - 1) : loadToolsPc[q] # 0
    /\ toolCallIdToInfo' = << >>
    /\ toolCallIdToServerKey' = << >>
    /\ retiredUpTo' = Len(instances)
    /\ loadTools(r, ClearClients(mcpClients),
                 [ k \in KeysOf(ClearClients(mcpClients)) |-> clientOf[k] ],
                 [ k \in KeysOf(servers) |-> {} ])
    /\ UNCHANGED servers
    /\ UNCHANGED outsideSession

\* handleCallTool as the stores see it: the tool's server key is looked up,
\* its client requested, and the call recorded in both ledger maps
handleCallToolRecords(id, toolName) ==
  LET serverKey == IF toolName \in DOMAIN toolNameToServerKey
                   THEN toolNameToServerKey[toolName] ELSE NoServer
      isSensitive == toolName \in DOMAIN toolSensitivity /\ toolSensitivity[toolName]
  IN /\ getClientFrom(serverKey, mcpClients, clientOf, returned)
     /\ toolCallIdToInfo' = (id :> ToolInfo(toolName, isSensitive)) @@ toolCallIdToInfo
     /\ toolCallIdToServerKey' = (id :> serverKey) @@ toolCallIdToServerKey
     /\ UNCHANGED << servers, toolNameToServerKey, toolSensitivity, loadToolsPc,
                     allTools, tools, retiredUpTo >>
     /\ UNCHANGED outsideSession

\* the provider after construction
InitSession ==
  /\ FormIdle
  /\ DisplayIdle
  /\ servers \in Configurations
  /\ toolNameToServerKey = << >>
  /\ toolSensitivity = << >>
  /\ toolCallIdToServerKey = << >>
  /\ toolCallIdToInfo = << >>
  /\ mcpClients = << >>
  /\ clientOf = << >>
  /\ instances = << >>
  /\ loadToolsPc = [ r \in LoadToolsRuns |-> 0 ]
  /\ allTools = [ r \in LoadToolsRuns |-> {} ]
  /\ tools = {}
  /\ retiredUpTo = 0
  /\ returned = [ k \in KeysOf(servers) |-> {} ]
  /\ lastGetClient = NoGetClient
  /\ placeholderMessage = [ message |-> << >>, fallback_message |-> << >> ]
  /\ serverData = "plain"
  /\ ResolveIdle
  /\ displayInput = << "none", NoCtx >>
  /\ ConsentIdle
  /\ ChatIdle

NextSession ==
  \/ resolveWebviewView
  \/ \E r \in LoadToolsRuns, listed \in BOOLEAN : listToolsReturns(r, listed)
  \/ \E serverKey \in ServerKeyArguments : getClientCalled(serverKey)
  \/ \E id \in ToolCallIds, toolName \in Tools : handleCallToolRecords(id, toolName)
  \/ refreshConfiguration

SpecSession == InitSession /\ [][NextSession]_vars

(***************************************************************************)
(* Claims about the session stores                                         *)
(***************************************************************************)
\* C14: for every configured server key k, repeated getClient(k) calls return
\* the same McpClient instance (at most one client is ever created per key)
\* until refreshConfiguration is called; the first getClient(k) after
\* refreshConfiguration creates a new instance.
C14_OneClientPerKeyUntilRefresh ==
  \A k \in KeysOf(servers) :
    /\ Cardinality({ n \in DOMAIN instances : n > retiredUpTo /\ instances[n] = k }) <= 1
    /\ Cardinality(returned[k]) <= 1
    /\ \A n \in returned[k] : n > retiredUpTo /\ instances[n] = k

C14_Witness ==
  /\ retiredUpTo > 0
  /\ \E k \in KeysOf(servers) :
       /\ \E n \in 1..retiredUpTo : instances[n] = k
       /\ returned[k] # {}
       /\ lastGetClient.chosenServerKey = k
       /\ lastGetClient.client < Len(instances)

\* a getClient call was made with no server key or with one that is not
\* configured
FellBack ==
  /\ lastGetClient # NoGetClient
  /\ lastGetClient.serverKey \notin KeysOf(servers)

\* C15 (as stated): getClient called with no server key, or with a key that
\* is not configured, returns the client of the lexicographically first
\* configured server key, whatever the order of the configuration.
C15_FallbackIsLexicographicallyFirst ==
  FellBack =>
    /\ lastGetClient.chosenServerKey = LexicographicallyFirst(servers)
    /\ instances[lastGetClient.client] = LexicographicallyFirst(servers)

\* C15 (amended): getClient called with no server key, or with a key that is
\* not configured, returns the client of the first key of the 'servers'
\* configuration in the configuration's own order.
C15_FallbackIsFirstConfigured ==
  FellBack =>
    /\ lastGetClient.chosenServerKey = servers[1]
    /\ instances[lastGetClient.client] = servers[1]
    /\ lastGetClient.client > retiredUpTo

C15_Witness ==
  /\ FellBack
  /\ lastGetClient.serverKey = "serverX"
  /\ servers = << "serverB", "serverA" >>
  /\ lastGetClient.chosenServerKey = "serverB"
  /\ "serverA" \in DOMAIN clientOf

\* the ledger entry of a tool-call id: its server key and its tool info
LedgerEntry(keys, infos, id) == << keys[id], infos[id] >>

\* the tool-call ids that have a ledger entry
Recorded(keys, infos) == DOMAIN keys \cup DOMAIN infos

\* C16: recording a tool call id that already has a ledger entry with a
\* different server key, tool name or sensitivity fails and leaves the
\* existing entry unchanged; only a re-record with identical values is
\* accepted.
C16_DuplicateRecordLeavesEntry ==
  [][ \A id \in ToolCallIds, toolName \in Tools :
        ( /\ handleCallToolRecords(id, toolName)
          /\ id \in Recorded(toolCallIdToServerKey, toolCallIdToInfo) )
        => LedgerEntry(toolCallIdToServerKey', toolCallIdToInfo', id)
             = LedgerEntry(toolCallIdToServerKey, toolCallIdToInfo, id) ]_vars

\* C17: handling the explicit chat clear (clearChat) empties the tool-call
\* ledger: after it, no tool-call id recorded before the clear can be looked
\* up, neither its server key nor its tool info.
C17_ClearChatEmptiesLedger ==
  [][ clearChat =>
        \A id \in Recorded(toolCallIdToServerKey, toolCallIdToInfo) :
          id \notin Recorded(toolCallIdToServerKey', toolCallIdToInfo') ]_vars

\* C18: once recorded, a tool call's ledger entry stays present and
\* unchanged across every operation other than the explicit session reset,
\* including configuration refresh, tool reloading, later tool calls and
\* resolution attempts.
C18_LedgerEntryStays ==
  [][ \A id \in Recorded(toolCallIdToServerKey, toolCallIdToInfo) :
        /\ id \in DOMAIN toolCallIdToServerKey'
        /\ id \in DOMAIN toolCallIdToInfo'
        /\ LedgerEntry(toolCallIdToServerKey', toolCallIdToInfo', id)
             = LedgerEntry(toolCallIdToServerKey, toolCallIdToInfo, id) ]_vars

(***************************************************************************)
(* The two forms of a placeholder: {serverKey:placeholder} inside the      *)
(* client, {placeholder} for the server and for the LLM                    *)
(***************************************************************************)
\* the values of a tool-call argument: placeholders without a server key,
\* placeholders with one, and plain text
WrittenValues ==
  { Token(NameOf1),
    Token(NoteRef),
    << "{", "x", "}" >>,
    << "{", ":", "x", "}" >>,
    << "{", "x", ":", "}" >>,
    << "{", ":", "}" >>,
    << "{", ":", "a", ":", "b", "}" >>,
    << "{", "{", "x", "}" >>,
    << "{", "x", ".", "0", ".", "y", ":", "}" >>,
    Token(PrefixedA),
    << "{", "a", ":", "b", ":", "c", "}" >>,
    << "to", " " >> \o Token(NameOf1),
    << "{", "}" >> }

\* the server keys a placeholder is prefixed with
ValidServerKeys == { "serverA", "serverB", "serverX" }

\* the placeholders a server returns for a reference request, with and
\* without braces
ServerPlaceholders ==
  { Token(NameOf1), NameOf1, Token(SecondName1), Token(EmailOf2), EmailOf2,
    << "{", "x", ":", "y", "}" >>, Token(PrefixedA) }

\* placeholder.replace(/^{|}$/g, '')
Unbraced(placeholder) ==
  LET first == IF Len(placeholder) > 0 /\ placeholder[1] = "{" THEN 2 ELSE 1
      last == IF Len(placeholder) > 0 /\ placeholder[Len(placeholder)] = "}"
              THEN Len(placeholder) - 1 ELSE Len(placeholder)
  IN SubSeq(placeholder, first, last)

\* McpClient.getReferencePlaceholder: `{${serverKey}:${placeholder}}`
getReferencePlaceholder(serverKey, placeholder) ==
  << "{", serverKey, ":" >> \o Unbraced(placeholder) \o << "}" >>

\* mutant: the placeholder is pushed as getReferencePlaceholder returned it
cleanPlaceholder_AsReturned(placeholder) == placeholder

\* placeholder.replace(/^{[^:]+:([^}]+)}$/, '{$1}') of
\* handleReferenceRequestAction
cleanPlaceholder(placeholder) ==
  LET colon == IndexFrom(placeholder, ":", 1)
  IN IF /\ Len(placeholder) >= 5
        /\ placeholder[1] = "{"
        /\ colon > 2
        /\ colon < Len(placeholder) - 1
        /\ IndexFrom(placeholder, "}", colon + 1) = Len(placeholder)
     THEN Token(SubSeq(placeholder, colon + 1, Len(placeholder) - 1))
     ELSE placeholder

\* handleCallTool: the argument gets the tool's server key
handleCallToolAddsServerKey ==
  /\ placeholderForm.by = "llm"
  /\ placeholderForm' =
       [ placeholderForm EXCEPT
           !.value = AddServerKey(placeholderForm.value, placeholderForm.serverKey),
           !.by = "handleCallTool" ]
  /\ UNCHANGED outsideForm

\* McpClient.callTool: the server key is stripped before the request is sent
callToolStripsServerKey ==
  /\ placeholderForm.by = "handleCallTool"
  /\ placeholderForm' =
       [ placeholderForm EXCEPT !.value = StripServerKey(placeholderForm.value),
                                !.by = "callTool" ]
  /\ UNCHANGED outsideForm

\* handleReferenceRequestAction: the server key is stripped before the
\* placeholder is pushed for the LLM
referencePlaceholderCleaned ==
  /\ placeholderForm.by = "handleCallTool"
  /\ placeholderForm' =
       [ placeholderForm EXCEPT !.value = cleanPlaceholder(placeholderForm.value),
                                !.by = "cleanPlaceholder" ]
  /\ UNCHANGED outsideForm

\* McpClient.getReferencePlaceholder: the server's placeholder gets the
\* server key
getReferencePlaceholderReturns ==
  /\ placeholderForm.by = "server"
  /\ placeholderForm' =
       [ placeholderForm EXCEPT
           !.value = getReferencePlaceholder(placeholderForm.serverKey,
                                             placeholderForm.value),
           !.by = "getReferencePlaceholder" ]
  /\ UNCHANGED outsideForm

\* handleReferenceRequestAction: the placeholder getReferencePlaceholder
\* returned is cleaned and pushed to the chat history
handleReferenceRequestAction ==
  /\ placeholderForm.by = "getReferencePlaceholder"
  /\ placeholderForm' =
       [ placeholderForm EXCEPT !.value = cleanPlaceholder(placeholderForm.value),
                                !.by = "chatHistory" ]
  /\ UNCHANGED outsideForm

InitForm ==
  /\ \/ \E written \in WrittenValues, serverKey \in ValidServerKeys :
          placeholderForm = [ written |-> written, serverKey |-> serverKey,
                              value |-> written, by |-> "llm" ]
     \/ \E written \in ServerPlaceholders, serverKey \in ValidServerKeys :
          placeholderForm = [ written |-> written, serverKey |-> serverKey,
                              value |-> written, by |-> "server" ]
  /\ DisplayIdle
  /\ toolCallIdToServerKey = << >>
  /\ toolCallIdToInfo = << >>
  /\ mcpClients = ConfiguredServers
  /\ SessionLoaded
  /\ placeholderMessage = [ message |-> << >>, fallback_message |-> << >> ]
  /\ serverData = "plain"
  /\ ResolveIdle
  /\ displayInput = << "none", NoCtx >>
  /\ ConsentIdle
  /\ ChatIdle

NextForm ==
  \/ handleCallToolAddsServerKey
  \/ callToolStripsServerKey
  \/ referencePlaceholderCleaned
  \/ getReferencePlaceholderReturns
  \/ handleReferenceRequestAction

SpecForm == InitForm /\ [][NextForm]_vars

\* a placeholder without a server-key prefix
WithoutServerKey(value) == MatchWithoutServer(value) /\ ~MatchWithServer(value)

\* C19: for every placeholder t without a server-key prefix and every valid
\* server key k, stripping the prefix from the wire form obtained by adding
\* k to t yields exactly t.
C19_StripAfterAddIsIdentity ==
  ( /\ WithoutServerKey(placeholderForm.written)
    /\ placeholderForm.by \in { "callTool", "cleanPlaceholder" } )
  => placeholderForm.value = placeholderForm.written

C19_Witness ==
  /\ placeholderForm.written = << "{", ":", "a", ":", "b", "}" >>
  /\ placeholderForm.serverKey = "serverB"
  /\ placeholderForm.by = "callTool"
  /\ placeholderForm.value = placeholderForm.written

(***************************************************************************)
(* Claims about the substitution of step 4                                 *)
(***************************************************************************)
\* the text in which every occurrence of {placeholder}, for the placeholders
\* of the list that have a value, is the value itself, and everything else
\* is the text's own
RECURSIVE EachOccurrenceByValue(_, _, _, _)
EachOccurrenceByValue(text, list, values, i) ==
  IF i > Len(text) THEN << >>
  ELSE LET here == { n \in DOMAIN list :
                       /\ list[n] \in DOMAIN values
                       /\ i + Len(list[n]) + 1 <= Len(text)
                       /\ SubSeq(text, i, i + Len(list[n]) + 1)
                            = PlaceholderPattern(list[n]) }
       IN IF here = {}
          THEN << text[i] >> \o EachOccurrenceByValue(text, list, values, i + 1)
          ELSE LET placeholder == list[CHOOSE n \in here : TRUE]
               IN values[placeholder]
                    \o EachOccurrenceByValue(text, list, values,
                                             i + Len(placeholder) + 2)

\* C20: substitution replaces every occurrence in the message of each
\* placeholder that has a resolved value by that value, leaves every
\* occurrence of each placeholder without a resolved value verbatim, and
\* never fails.
C20_EveryOccurrenceReplacedByItsValue ==
  (pmPc = "done" /\ replaced # << >>) =>
    resolvedMessage =
      EachOccurrenceByValue(placeholderMessage.message,
                            extractPlaceholdersFromText(placeholderMessage.message),
                            resolvedValues, 1)

(***************************************************************************)
(* Claims about what handlePlaceholderMessageAction shows                  *)
(***************************************************************************)
\* none of the placeholders of the message has a resolved value
NothingResolved ==
  \A n \in DOMAIN placeholders : placeholders[n] \notin DOMAIN resolvedValues

\* C21: for a placeholder message containing at least one placeholder, the
\* text shown to the user is the caller-supplied fallback message if and only
\* if none of the requested placeholders resolved; if at least one
\* placeholder resolved, the best-effort substituted text is shown.
C21_FallbackIffNothingResolved ==
  (pmPc = "done" /\ placeholders # << >>) =>
    /\ response.posted
    /\ (response.value = placeholderMessage.fallback_message) <=> NothingResolved
    /\ ~NothingResolved => response.value = resolvedMessage

\* what resolveMessagePlaceholdersEfficiently returns to its caller: a
\* Promise<string>, the text alone; the resolution_status a server may put
\* in its reply is not read by resolvePlaceholdersFromServer
AttemptResult ==
  [ text |-> resolvedMessage,
    resolution_status |-> [ present |-> FALSE, total |-> 0, resolved |-> 0,
                            failed |-> << >> ] ]

\* the placeholders of the message that received a value / that did not
ResolvedPlaceholders ==
  { placeholders[n] : n \in { m \in DOMAIN placeholders :
                                placeholders[m] \in DOMAIN resolvedValues } }

UnresolvedPlaceholders ==
  { placeholders[n] : n \in { m \in DOMAIN placeholders :
                                placeholders[m] \notin DOMAIN resolvedValues } }

\* C22: a resolution attempt reports a status in which total is the number
\* of placeholders requested, resolved is the number of placeholders that
\* received a value, and failed lists exactly the placeholders that did not,
\* so resolved plus the length of failed equals total.
C22_StatusCountsPlaceholders ==
  (pmPc = "done" /\ placeholders # << >>) =>
    LET status == AttemptResult.resolution_status
    IN /\ status.present
       /\ status.total = Cardinality(ResolvedPlaceholders \cup UnresolvedPlaceholders)
       /\ status.resolved = Cardinality(ResolvedPlaceholders)
       /\ { status.failed[n] : n \in DOMAIN status.failed } = UnresolvedPlaceholders
       /\ status.resolved + Len(status.failed) = status.total

(***************************************************************************)
(* Claims about the errors of a resolve request                            *)
(***************************************************************************)
\* an access control error other than consent required
DeniesAccess(error) == isAccessControlError(error) /\ error.code # CONSENT_REQUIRED

\* nothing of a consent flow exists for the invocation
NoConsentFlow(i, requests, dialogs, pending) ==
  /\ Len(requests[i]) = 1
  /\ requests[i][1].method = "mcpp/resolve_placeholders"
  /\ dialogs[i] = "none"
  /\ i \notin pending

\* C23: when a resolve request fails with an access-control error other than
\* consent-required, no further resolve request and no provide_consent
\* request is issued for that attempt, no consent prompt is shown, and the
\* caller receives an access-denied failure.
C23_AccessDeniedIsTerminal ==
  [][ \A i \in Calls :
        /\ \A error \in ResolveErrors :
             (resolveThrows(i, error) /\ DeniesAccess(error)) =>
               /\ outcome'[i] = "accessDenied"
               /\ rwacPc'[i] = "thrown"
               /\ NoConsentFlow(i, sent', dialog', pendingConsents')
        /\ outcome[i] = "accessDenied" =>
             /\ outcome'[i] = "accessDenied"
             /\ rwacPc'[i] = "thrown"
             /\ NoConsentFlow(i, sent', dialog', pendingConsents') ]_vars

C23_Witness ==
  \E i, j \in Calls :
    /\ outcome[i] = "accessDenied"
    /\ NoConsentFlow(i, sent, dialog, pendingConsents)
    /\ outcome[j] = "data"
    /\ Len(sent[j]) = 3

\* the error is no object, has no numeric code, or a code outside McppErrorCode
Unrecognized(error) ==
  \/ ~error.isObject
  \/ ~error.hasNumericCode
  \/ error.code \notin McppErrorCode

\* C24: for every error value returned by a resolve request (a non-object,
\* an object with no numeric code, a code outside the MCPP set, code -32007
\* with or without a consent_request payload, any other MCPP code), error
\* classification yields exactly one of consent-required, access-denied or
\* other without itself throwing; it yields consent-required exactly when
\* the code is -32007, and other for every unrecognized shape.
C24_ClassifiedWithoutThrowing ==
  [][ \A i \in Calls, error \in ResolveErrors :
        resolveThrows(i, error) =>
          LET consentRequired == i \in pendingConsents' /\ dialog'[i] = "open"
              accessDenied == outcome'[i] = "accessDenied"
              other == outcome'[i] = "error"
          IN /\ Cardinality({ b \in { << 1, consentRequired >>, << 2, accessDenied >>,
                                      << 3, other >> } : b[2] }) = 1
             /\ consentRequired <=>
                  (~Unrecognized(error) /\ error.code = CONSENT_REQUIRED)
             /\ Unrecognized(error) => other ]_vars

(***************************************************************************)
(* Claims about the turns of the conversation                              *)
(***************************************************************************)
\* the runConversation chains that are in progress
InProgress == { c \in Chains : chainPc[c] # "idle" }

\* C25: at no time are two conversational turns in progress on the same chat
\* history: a runConversation invocation (LLM request plus handling of its
\* reply, including tool calls and placeholder resolution) never overlaps
\* with another runConversation invocation.
C25_OneTurnAtATime == Cardinality(InProgress) <= 1

Decided(args, i) == args[i] # "none"

\* the timer callback of request i has rejected it
TimedOut(outcomes, i) == outcomes[i] = "timeout"

\* C27: for each consent request, exactly one of the user decision and the
\* timeout takes effect: whichever is handled first removes the pending
\* entry, and the later one changes nothing (it sends no provide_consent,
\* issues no retry, and does not alter the already settled outcome).
C27_DecisionOrTimeoutNotBoth ==
  [][ \A i \in Calls :
        /\ (i \in pendingConsents /\ i \notin pendingConsents') =>
             (Decided(approvedArg', i) /\ ~TimedOut(outcome', i))
               \/ (TimedOut(outcome', i) /\ ~Decided(approvedArg', i))
        /\ (Decided(approvedArg', i) \/ TimedOut(outcome', i)) =>
             i \notin pendingConsents'
        /\ TimedOut(outcome, i) =>
             /\ TimedOut(outcome', i)
             /\ ~Decided(approvedArg', i)
             /\ sent'[i] = sent[i]
             /\ rwacPc'[i] = rwacPc[i]
        /\ Decided(approvedArg, i) =>
             /\ approvedArg'[i] = approvedArg[i]
             /\ ~TimedOut(outcome', i)
             /\ consentTimeout(i) =>
                  (sent'[i] = sent[i] /\ outcome'[i] = outcome[i]
                     /\ rwacPc'[i] = rwacPc[i]) ]_vars

C27_Witness ==
  \E i \in Calls :
    /\ TimedOut(outcome, i)
    /\ dialog[i] = "closed"
    /\ inbox = << >>
    /\ ~Decided(approvedArg, i)
    /\ \E j \in Calls :
         /\ Decided(approvedArg, j)
         /\ hostTimer[j] = "fired"
         /\ outcome[j] = "data"

(***************************************************************************)
(* Claims about server-key prefixes in message text                        *)
(***************************************************************************)
\* the placeholder is written as serverKey:toolCallId.rowIndex.columnName
HasServerKeyPrefix(placeholder) ==
  Len(placeholder) > 2 /\ placeholder[2] = ":"

\* the server key of the group that holds the placeholder
GroupedUnder(groups, placeholder) ==
  { groups[g].serverKey : g \in { h \in DOMAIN groups :
      \E n \in DOMAIN groups[h].placeholders :
        groups[h].placeholders[n] = placeholder } }

\* C28: a placeholder of the message text with an explicit server-key prefix
\* is recognised as prefixed: its tool-call id is the identifier between the
\* prefix and the first '.', and grouping files it under the server the
\* prefix names.
C28_PrefixNamesTheServer ==
  pmPc # "idle" =>
    \A n \in DOMAIN placeholders :
      HasServerKeyPrefix(placeholders[n]) =>
        /\ extractToolCallIdFromPlaceholder(placeholders[n]) = << placeholders[n][3] >>
        /\ GroupedUnder(placeholdersByServer, placeholders[n]) = { placeholders[n][1] }

(***************************************************************************)
(* chatView.ts: a display_data action and the requests it sends            *)
(***************************************************************************)
\* McpClient.getData: the mcpp/get_data request for a tool-call id its
\* dataCache does not hold
GetDataRequest(server, toolCallId) ==
  [ method |-> "mcpp/get_data", server |-> server, tool_call_id |-> toolCallId ]

\* the tool_call_id of a display_data action, as the LLM writes it
DisplayToolCallIds ==
  { << "call_1" >>, << "call_2" >>, << "call_9" >>, << "{", "call_1", "}" >> }

\* the usage_context of a display_data action: absent, or one of the
\* contexts resolveWithAccessControl is called with
DisplayUsageContexts == { NoCtx } \cup { input[2] : input \in ResolveInputs }

\* [^}:}]+ from position from: the longest run without '}' and ':'
RECURSIVE IdRun(_, _)
IdRun(input, from) ==
  IF from > Len(input) \/ input[from] \in { "}", ":" } THEN << >>
  ELSE << input[from] >> \o IdRun(input, from + 1)

\* toolCallIdInput.match(/^{?([^}:}]+)[^}]*}?$/): the match's first group, or
\* the input itself where the expression does not match
GetDataToolCallId(toolCallIdInput) ==
  LET from == IF toolCallIdInput # << >> /\ toolCallIdInput[1] = "{" THEN 2 ELSE 1
      run == IdRun(toolCallIdInput, from)
      rest == SubSeq(toolCallIdInput, from + Len(run), Len(toolCallIdInput))
      matches == /\ run # << >>
                 /\ \A n \in DOMAIN rest : rest[n] = "}" => n = Len(rest)
  IN IF matches THEN run ELSE toolCallIdInput

\* handleDisplayDataAction up to its first await: the message is posted;
\* with a usage context the data is fetched through getClient(), without
\* one handleGetData looks the server up in the ledger
handleDisplayDataAction(toolCallIdInput, ctx) ==
  /\ displayAction.pc \in { "idle", "done" }
  /\ displayAction.handled < MaxDisplays
  /\ LET toolCallId == GetDataToolCallId(toolCallIdInput)
         serverKey == LedgerGet(toolCallIdToServerKey, toolCallId)
     IN displayAction' =
          IF ctx # NoCtx
          THEN [ pc |-> "get_data_with_context", tool_call_id |-> toolCallIdInput,
                 with_context |-> TRUE,
                 sent |-> << GetDataRequest(getClient(NoServer), toolCallIdInput) >>,
                 posted |-> "response", handled |-> displayAction.handled + 1 ]
          ELSE IF serverKey = NoServer
               THEN [ pc |-> "done", tool_call_id |-> toolCallId,
                      with_context |-> FALSE, sent |-> << >>,
                      posted |-> "not_recognized",
                      handled |-> displayAction.handled + 1 ]
               ELSE [ pc |-> "get_data", tool_call_id |-> toolCallId,
                      with_context |-> FALSE,
                      sent |-> << GetDataRequest(getClient(serverKey), toolCallId) >>,
                      posted |-> "response", handled |-> displayAction.handled + 1 ]
  /\ UNCHANGED << storeVars, outsideDisplay >>

\* client.getData settles: handleGetData posts the data; with a usage context
\* resolveWithAccessControl sends the data to the client of getClient()
displayGetDataSettles(fetched) ==
  /\ displayAction.pc \in { "get_data", "get_data_with_context" }
  /\ displayAction' =
       IF ~fetched
       THEN [ displayAction EXCEPT !.pc = "done", !.posted = "response" ]
       ELSE IF displayAction.pc = "get_data"
            THEN [ displayAction EXCEPT !.pc = "done", !.posted = "dataView" ]
            ELSE [ displayAction EXCEPT
                     !.pc = "resolving",
                     !.sent = Append(@, ResolveRequest(getClient(NoServer),
                                                       << "data_of" >> \o displayAction.tool_call_id,
                                                       DisplayContext)) ]
  /\ UNCHANGED << storeVars, outsideDisplay >>

\* resolveWithAccessControl settles (its consent flow is SpecConsent's)
displayResolveSettles(resolved) ==
  /\ displayAction.pc = "resolving"
  /\ displayAction' =
       [ displayAction EXCEPT !.pc = "done",
           !.posted = IF resolved THEN "dataResponse" ELSE "response" ]
  /\ UNCHANGED << storeVars, outsideDisplay >>

InitDisplay ==
  /\ FormIdle
  /\ DisplayIdle
  /\ \E store \in Stores :
       /\ toolCallIdToServerKey = store.ledger
       /\ toolCallIdToInfo =
            [ id \in DOMAIN store.ledger |->
                LET toolName == CHOOSE t \in Tools : ToolServerKey(t) = store.ledger[id]
                IN ToolInfo(toolName, ToolSensitive(toolName)) ]
       /\ mcpClients = store.clients
  /\ SessionLoaded
  /\ placeholderMessage = [ message |-> << >>, fallback_message |-> << >> ]
  /\ serverData = "plain"
  /\ ResolveIdle
  /\ displayInput = << "none", NoCtx >>
  /\ ConsentIdle
  /\ ChatIdle

NextDisplay ==
  \/ \E toolCallIdInput \in DisplayToolCallIds, ctx \in DisplayUsageContexts :
       handleDisplayDataAction(toolCallIdInput, ctx)
  \/ \E fetched \in BOOLEAN : displayGetDataSettles(fetched)
  \/ \E resolved \in BOOLEAN : displayResolveSettles(resolved)

SpecDisplay == InitDisplay /\ [][NextDisplay]_vars

(***************************************************************************)
(* Claims about the server of a display_data action                        *)
(***************************************************************************)
\* the server the ledger records for the action's tool-call id
RecordedServer == LedgerGet(toolCallIdToServerKey, displayAction.tool_call_id)

\* C29: every mcpp/get_data and every access-controlled resolve request a
\* display_data action issues for a tool-call id, with or without a usage
\* context, is sent to the server the ledger records for that tool call.
C29_DisplayRequestsGoToRecordedServer ==
  RecordedServer # NoServer =>
    \A n \in DOMAIN displayAction.sent :
      displayAction.sent[n].server = RecordedServer

(***************************************************************************)
(* Claims about the start of the consent timer                             *)
(***************************************************************************)
\* the resolve request failed with a consent request the host can read
CarriesConsentRequest(error) ==
  isConsentRequiredError(error) /\ error.hasConsentRequest

\* C30: a timeout timer is started for a consent request only if the
\* server's timeout_seconds is greater than 0: a request whose
\* timeout_seconds is 0 gets no timer, so it stays pending until the user
\* decides and no timeout can deny it (consentTimeout needs the armed timer).
C30_TimerOnlyForPositiveTimeout ==
  [][ \A i \in Calls, error \in ResolveErrors :
        (resolveThrows(i, error) /\ CarriesConsentRequest(error)) =>
          /\ hostTimer'[i] = "armed" => error.timeout_seconds > 0
          /\ error.timeout_seconds = 0 => ~StartsTimer(consentRequest'[i].timeout_seconds) ]_vars

(***************************************************************************)
(* Claims about the ledger and the dispatch of a tool call                 *)
(***************************************************************************)
\* a tools/call request for the tool-call id has been sent to the server
DispatchedTo(calls, requests, id, server) ==
  \E c \in Chains :
    /\ calls[c].id = id
    /\ \E n \in DOMAIN requests[c] :
         /\ requests[c][n].method = "tools/call"
         /\ requests[c][n].server = server

\* C31: the ledger holds an entry for a tool-call id only if a tools/call
\* request for that id was dispatched to the recorded server: the step that
\* creates the entry is the step that dispatches the call, so a tool call
\* the user cancels at the confirmation prompt leaves no entry.
C31_EntryOnlyWhenDispatched ==
  [][ \A id \in ToolCallIds :
        (id \notin DOMAIN toolCallIdToServerKey /\ id \in DOMAIN toolCallIdToServerKey') =>
          DispatchedTo(toolCall', callSent', id, toolCallIdToServerKey'[id]) ]_vars

(***************************************************************************)
(* Claims about requests naming an unknown tool-call id                    *)
(***************************************************************************)
\* the last message of the history reports an id the host does not recognise
ReportsNotRecognized(messages) ==
  /\ messages # << >>
  /\ messages[Len(messages)].kind = "not_recognized"
  /\ "host" \in messages[Len(messages)].origins

\* C32: a reference request or a get-data request naming a tool-call id that
\* has no ledger entry issues no request to any server; an error naming the
\* unrecognised id is appended to the chat history and the conversation
\* continues.
C32_UnknownIdIsReported ==
  [][ \A c \in Chains, id \in ToolCallIds, call \in ToolCalls :
        \A kind \in { "display_data", "reference_request" } :
          (runConversation(c, kind, id, call) /\ id \notin DOMAIN toolCallIdToServerKey) =>
            /\ chainPc'[c] = "llm"
            /\ callSent' = callSent
            /\ Len(chatHistory') = Len(chatHistory) + 2
            /\ ReportsNotRecognized(chatHistory') ]_vars

\* both handlers have reported an unknown id and the conversation runs on
C32_Witness ==
  /\ \E n, m \in DOMAIN chatHistory :
       /\ chatHistory[n].kind = "not_recognized" /\ chatHistory[n].role = "user"
       /\ chatHistory[m].kind = "not_recognized" /\ chatHistory[m].role = "system"
  /\ \E c \in Chains : chainPc[c] = "llm"
  /\ \A c \in Chains : chainPc[c] \in { "idle", "llm" }
  /\ toolCallIdToServerKey = << >>

(***************************************************************************)
(* Claims about the server key handleCallTool adds                         *)
(***************************************************************************)
\* the argument is exactly one placeholder without a server key
BarePlaceholder(value) == MatchWithoutServer(value) /\ ~MatchWithServer(value)

\* the server the ledger records for the tool call a bare placeholder names
OwnerOf(value, ledger) ==
  LedgerGet(ledger, FirstSegment(SubSeq(value, 2, Len(value) - 1)))

\* handleCallTool of chain c has put a server key before its bare placeholder
KeyAdded(c, before, after) ==
  /\ before[c].value # after[c].value
  /\ BarePlaceholder(toolCall'[c].value)
  /\ MatchWithServer(after[c].value)
  /\ StripServerKey(after[c].value) = toolCall'[c].value

\* C33: when handleCallTool adds a server-key prefix to a tool argument that
\* is an unprefixed placeholder, the key it adds is the key of the server
\* that owns the placeholder's tool call according to the ledger.
C33_AddedKeyIsOwner ==
  [][ \A c \in Chains :
        (KeyAdded(c, argValue, argValue')
           /\ OwnerOf(toolCall'[c].value, toolCallIdToServerKey) # NoServer) =>
          ServerKeyPart(argValue'[c].value) =
            << OwnerOf(toolCall'[c].value, toolCallIdToServerKey) >> ]_vars

(***************************************************************************)
(* Claims about the confirmation of a sensitive tool                       *)
(***************************************************************************)
\* if (isSensitive): handleCallTool asks for confirmation before callTool
\* exactly when the sensitivity it recorded for the call is true; otherwise
\* it sends tools/call at once
AsksForConfirmation(info) == info.isSensitive

\* C34: a tool that its server lists as sensitive is sent to the server
\* (tools/call) only after the user has confirmed that call, under every
\* interleaving with configuration refresh and tool loading: whenever the LLM
\* calls such a tool out of the tools it was offered, handleCallTool asks for
\* confirmation.
C34_SensitiveToolAsksFirst ==
  [][ \A id \in ToolCallIds, toolName \in Tools :
        (handleCallToolRecords(id, toolName)
           /\ toolName \in tools
           /\ ToolSensitive(toolName)) =>
          AsksForConfirmation(toolCallIdToInfo'[id]) ]_vars

(***************************************************************************)
(* Claims about the remember-choice of a consent decision                  *)
(***************************************************************************)
\* the step sends mcpp/provide_consent for request i
ProvidesConsent(i) ==
  /\ Len(sent'[i]) = Len(sent[i]) + 1
  /\ sent'[i][Len(sent'[i])].method = "mcpp/provide_consent"

\* C35: the remember-choice value the user selects in the consent dialog is
\* the remember_choice value sent to the server in mcpp/provide_consent for
\* that request.
C35_RememberChoiceIsSent ==
  [][ \A i \in Calls :
        (ProvidesConsent(i)
           /\ inbox # << >>
           /\ Head(inbox).dialog = i
           /\ Head(inbox).cause = "click") =>
          sent'[i][Len(sent'[i])].remember_choice = Head(inbox).rememberChoice ]_vars

(***************************************************************************)
(* Claims about late consentResponse messages                              *)
(***************************************************************************)
\* the message the host handles next comes from the dialog of a request that
\* is no longer pending in the host (timed out or decided)
StaleResponse ==
  /\ inbox # << >>
  /\ consentRequest[Head(inbox).dialog].present
  /\ Head(inbox).dialog \notin pendingConsents

\* C36: a consentResponse message produced by the dialog of a consent request
\* that has already timed out or been decided in the host (including the
\* webview's own deny-on-timeout message) has no effect on any other consent
\* request: it never approves or denies a request whose prompt the user has
\* not answered.
C36_StaleResponseHasNoEffect ==
  [][ (consentResponse /\ StaleResponse) =>
        \A i \in Calls :
          /\ approvedArg'[i] = approvedArg[i]
          /\ i \in pendingConsents <=> i \in pendingConsents'
          /\ sent'[i] = sent[i]
          /\ rwacPc'[i] = rwacPc[i] ]_vars

(***************************************************************************)
(* Claims about tool-call confirmations                                    *)
(***************************************************************************)
\* the confirmations that are outstanding: the chain waits in
\* askForConfirmation and the webview shows its prompt
Outstanding == { c \in Chains : chainPc[c] = "confirmation" /\ c \in prompts }

\* C37: when two tool-call confirmations are outstanding at once, every one
\* of them is settled by the user's answer to its own prompt: the answer to
\* a prompt settles the tool call of that prompt and no other one, so no
\* confirmation is left pending because a later prompt was issued.
C37_AnswerSettlesItsOwnPrompt ==
  [][ \A d \in Chains, confirmed \in BOOLEAN :
        (confirmationResponse(d, confirmed) /\ Cardinality(Outstanding) >= 2) =>
          /\ chainPc'[d] # "confirmation"
          /\ \A c \in Chains \ { d } : chainPc'[c] = chainPc[c] ]_vars

(***************************************************************************)
(* Claims about tool calls and their tool messages                         *)
(***************************************************************************)
\* the number of messages of the history with the role and, if given, kind
RECURSIVE CountMessages(_, _, _)
CountMessages(messages, role, kinds) ==
  IF messages = << >> THEN 0
  ELSE (IF Head(messages).role = role /\ Head(messages).kind \in kinds THEN 1 ELSE 0)
       + CountMessages(Tail(messages), role, kinds)

\* the tool calls the history asks for (one per assistant tool_calls message)
ToolCallsAsked(messages) == CountMessages(messages, "assistant", { "tool_calls" })

\* the tool messages of the history, each answering one tool call
ToolMessages(messages) ==
  CountMessages(messages, "tool", { "result", "error", "unparsable", "cancelled" })

\* runConversation is called by chain c: getLlmResponse gets the history
LlmInvoked(c) == chainPc[c] # "llm" /\ chainPc'[c] = "llm"

\* C38: whenever the LLM is invoked, every tool call of every assistant
\* tool_calls message in the chat history has a tool message answering it,
\* so the history holds at least as many tool messages as tool calls.
C38_ToolCallsAnsweredBeforeLlm ==
  [][ \A c \in Chains :
        LlmInvoked(c) =>
          ToolCallsAsked(chatHistory') <= ToolMessages(chatHistory') ]_vars

(***************************************************************************)
(* Claim about the server keys of the ledger                               *)
(***************************************************************************)
\* C39: every tool-call id in the ledger maps to a server key that is
\* defined and is one of the configured server keys, also when the tool
\* called is one that no server listed.
C39_LedgerKeyIsConfigured ==
  \A id \in DOMAIN toolCallIdToServerKey :
    /\ toolCallIdToServerKey[id] # NoServer
    /\ toolCallIdToServerKey[id] \in KeysOf(servers)

(***************************************************************************)
(* Claim about substitution into the original message                      *)
(***************************************************************************)
\* the placeholders with a value whose token starts at position i of the text
TokensAt(text, values, i) ==
  { placeholder \in DOMAIN values :
      /\ i + Len(PlaceholderPattern(placeholder)) - 1 <= Len(text)
      /\ SubSeq(text, i, i + Len(PlaceholderPattern(placeholder)) - 1)
           = PlaceholderPattern(placeholder) }

\* every token of the text that has a value is replaced by what replace
\* inserts for it; inserted text is not looked at again
RECURSIVE OnePassFrom(_, _, _)
OnePassFrom(text, values, i) ==
  IF i > Len(text) THEN << >>
  ELSE IF TokensAt(text, values, i) # {}
       THEN LET placeholder == CHOOSE q \in TokensAt(text, values, i) : TRUE
            IN ExpandReplacement(values[placeholder], PlaceholderPattern(placeholder))
               \o OnePassFrom(text, values, i + Len(PlaceholderPattern(placeholder)))
       ELSE << text[i] >> \o OnePassFrom(text, values, i + 1)

SubstitutedOnce(text, values) == OnePassFrom(text, values, 1)

\* C40: substitution acts only on the original message: the resolved message
\* is the original message with each token replaced once, and text inserted
\* as the value of one placeholder is not substituted again, also when the
\* value contains the token of another placeholder of the message.
C40_InsertedTextIsNotSubstituted ==
  (pmPc = "done" /\ replaced # << >>) =>
    resolvedMessage = SubstitutedOnce(placeholderMessage.message, resolvedValues)

====
